---- MODULE Spec2Model ----
(***************************************************************************)
(* Empagliflozin PBPK/PD model: the intestinal excretion chain, the renal  *)
(* glucose threshold (RTG) and glucose excretion, and the dosing regimens  *)
(* of the multi-dose studies.                                              *)
(*                                                                         *)
(* Amounts are counted in quanta: a reaction whose kinetic law is positive *)
(* moves one quantum from its reactant to its product.  Concentrations and *)
(* rate constants are scaled integers; a rate is kept as the numerator of  *)
(* a fraction whose denominator is positive.                               *)
(***************************************************************************)
EXTENDS Integers, Sequences, FiniteSets, TLC

VARIABLES
    amt,          \* intestine model: amount of every species [quanta]
    PODOSE_emp,   \* remaining oral dose [mass units, Mr_emp per quantum]
    eg_li,        \* glucuronide in the liver still to be exported into bile
    dose0,        \* ghost: the oral dose given at time zero
    entered,      \* ghost: cumulative amount that entered stage 0, per substance
    order,        \* ghost: chain places in the order of their first arrival
    KI__par,      \* kidney model: the parameters of the run
    KI__fpg,      \* fasting plasma glucose [mM], a boundary species
    KI__emp_ext,  \* empagliflozin in plasma [concentration quanta]
    KI__emp_urine,  \* empagliflozin in urine
    KI__glc_urine,  \* glucose in urine
    sim,          \* regimen: the simulation being run, <<study, key>>
    seg,          \* index of the current segment (timecourse), 0 before the first
    phase,        \* "idle", "start" (changes applied), "run", "done"
    model,        \* the model instance of the run: value of every changed symbol
    time,         \* simulated time at the start of the current segment [min]
    drug,         \* whether drug has reached the body
    excreted,     \* ghost: excretion events of the current segment, per species
    earlier,      \* ghost: whether a species was excreted in an earlier segment
    heap,         \* objects by identity: changes maps, Timecourses, lists
    tcsims,       \* per experiment, the simulations its last simulations() built
    nbuilt,       \* per experiment, the number of simulations() calls
    returned,     \* identities of the maps returned by default_changes()
    results,      \* per simulation, the result of its last run
    runs,         \* the simulations run so far, in order
    build_n,      \* model builder: the chain length the model is built with
    pc,           \* model builder: <<stage k of the loop, 0 (compartment) or substance>>
    m_compartments,  \* volumes of the stage compartments appended so far
    m_species,    \* species of the model built so far
    m_reactions,  \* reactions of the model built so far
    Vlumen_now,   \* the value of the non-constant compartment Vlumen
    xres,         \* pk calculation: the simulation result it is given
    k_dose,       \* pk calculation: index of the outer loop (scan point)
    k_sid,        \* pk calculation: index of the inner loop (substance)
    pk_dicts,     \* pk calculation: the rows collected so far
    pk_pc,        \* pk calculation: "loop", "returned" or "raised"
    conv_in,      \* unit conversion: the arguments y, pk_key, substance
    conv_pc,      \* unit conversion: "try", "except", "returned" or "raised"
    conv_out,     \* unit conversion: the returned quantity
    attempts,     \* ghost: the conversions attempted, in order
    plot_in,      \* panel: panel kind, scan_key, pk_key, study data df, sim_ymax
    plot_pc,      \* panel: "call", "rows" or "done"
    plot_call,    \* panel: index of the running call that adds study data
    plot_i,       \* panel: index of the row of df_filtered in the row loop
    max_y,        \* panel: max_y of the running call
    study_max_y,  \* panel: study_max_y of the subplot
    study_markers,     \* panel: study_markers of the subplot, <<study, marker>>
    studies_in_legend, \* panel: studies_in_legend
    drawn,        \* panel: the study points drawn on the axes
    ylim,         \* panel: top of the y-range, set when the panel is formatted
    returns,      \* ghost: what every call that adds study data returned
    skipped,      \* ghost: the rows left out for their condition label
    fit_in,       \* fitting: the fit mapping (study, key, metadata)
    fit_pc,       \* fitting: "registered", "control" or "all"
    fit_result,   \* fitting: what the filter returned
    sel_in,       \* selection: the arguments selected, experiment_classes, output_dir
    sel_pc,       \* selection: "call", "run", "collect" or "returned"
    experiments_to_run, \* selection: experiments_to_run
    sel_output_dir,     \* selection: output_dir after the defaults
    ran,          \* selection: the experiments that were run
    console,      \* selection: the messages printed
    dirs,         \* selection: the directories that exist
    dirs0,        \* ghost: the directories that existed at the call
    ab_dose,      \* absorption: the oral dose [1/F_scale quanta]
    ab_stomach,   \* absorption: the dose not yet dissolved
    ab_lumen,     \* absorption: emp_lumen
    ab_absorbed,  \* absorption: what EMPABS moved to emp_ext so far
    ab_chain,     \* absorption: empagliflozin in the stages of the intestine
    ab_feces,     \* absorption: emp_feces
    ab_flux,      \* ghost: absorption, EMPABS and EMPEXC of the last outflow
    flt_sid,      \* filters: fit_mapping.observable.y.sid, as tokens
    flt_called,   \* filters: the filters that were applied to it
    flt_accepted, \* filters: the filters that returned True
    li_eg,        \* liver: eg [quanta]
    li_eg_ext,    \* liver: eg_ext, the glucuronide in the plasma of the liver
    li_eg_bi,     \* liver: eg_bi, the glucuronide in the bile
    li_eg_lumen,  \* liver: eg_lumen
    li_exported,  \* ghost: what EGBIEX moved out of the liver so far
    li_left,      \* ghost: what left the lumen so far
    li_flux,      \* ghost: EGBIEX and EGEHC of the last interval
    tag_study,    \* tissue tags: the study whose fit_mappings() runs
    tag_todo,     \* tissue tags: the iterations of its loops still to run
    tag_mappings, \* tissue tags: the mappings built so far
    tag_pc,       \* tissue tags: "loop", "done" or "idle"
    dp_sim,       \* dose: <<study, simulation key>>
    dp_seg,       \* dose: index of the running timecourse, 0 before the first
    dp_phase,     \* dose: "idle", "start", "run" or "done"
    dp_PODOSE,    \* dose: PODOSE_emp [mg]
    dp_dissolved, \* ghost: summed decrease of PODOSE_emp over the regimen [mg]
    dp_entered,   \* ghost: what entered emp_lumen over the regimen [mmole]
    dp_doses,     \* ghost: number of dosing segments started
    dp_last,      \* ghost: PODOSE_emp before and after the last step
    tk_exp,       \* tasks: the experiment
    tk_pc,        \* tasks: "tasks", "fit_mappings", "figures", "done" or "idle"
    tk_i,         \* tasks: entries of the running method already made
    tk_tasks,     \* tasks: the dict built by tasks()
    tk_refs       \* tasks: the tasks the mappings and figures refer to so far

chainVars == <<amt, PODOSE_emp, eg_li, dose0, entered, order>>

kidneyVars == <<KI__par, KI__fpg, KI__emp_ext, KI__emp_urine, KI__glc_urine>>

seqVars == <<sim, seg, phase, model, time, drug, excreted, earlier>>

heapVars == <<heap, tcsims, nbuilt, returned, results, runs>>

buildVars == <<build_n, pc, m_compartments, m_species, m_reactions, Vlumen_now>>

pkVars == <<xres, k_dose, k_sid, pk_dicts, pk_pc>>

convVars == <<conv_in, conv_pc, conv_out, attempts>>

plotVars == <<plot_in, plot_pc, plot_call, plot_i, max_y, study_max_y, study_markers,
              studies_in_legend, drawn, ylim, returns, skipped>>

fitVars == <<fit_in, fit_pc, fit_result>>

selVars == <<sel_in, sel_pc, experiments_to_run, sel_output_dir, ran, console, dirs, dirs0>>

splitVars == <<ab_dose, ab_stomach, ab_lumen, ab_absorbed, ab_chain, ab_feces, ab_flux>>

filterVars == <<flt_sid, flt_called, flt_accepted>>

bileVars == <<li_eg, li_eg_ext, li_eg_bi, li_eg_lumen, li_exported, li_left, li_flux>>

tagVars == <<tag_study, tag_todo, tag_mappings, tag_pc>>

doseVars == <<dp_sim, dp_seg, dp_phase, dp_PODOSE, dp_dissolved, dp_entered, dp_doses, dp_last>>

taskVars == <<tk_exp, tk_pc, tk_i, tk_tasks, tk_refs>>

vars == <<chainVars, kidneyVars, seqVars, heapVars, buildVars, pkVars, convVars, plotVars,
          fitVars, selVars, splitVars, filterVars, bileVars, tagVars, doseVars,
          taskVars>>

(***************************************************************************)
(* Bounds of the model.                                                    *)
(***************************************************************************)
MaxDose == 2   \* largest oral dose [quanta]
MaxEg == 2     \* largest glucuronide load of the liver [quanta]
MaxEmp == 4    \* largest amount of empagliflozin passing the kidney [quanta]
MaxE50 == 2    \* largest RTG_E50 [concentration quanta]
MaxGamma == 2  \* largest hill coefficient RTG_gamma
MaxGlc == 2    \* largest amount of glucose in urine [quanta]
MaxCum == 2    \* largest cumulative urinary amount followed in a regimen [quanta]
MaxBuilds == 2 \* largest number of simulations() calls per experiment
MaxRuns == 3   \* largest number of simulation runs
MaxChain == 8  \* largest chain length a model is built with
MaxScan == 3   \* largest number of points of a scanned dimension
MaxValue == 2  \* largest magnitude of a quantity that is converted
MaxRows == 2   \* largest number of rows of a study data file
MaxMean == 1   \* largest mean of a study data row and of a simulated maximum
MaxOral == 4   \* largest oral dose of the absorption split [quanta]
MaxBile == 5   \* largest amount of glucuronide the liver forms [quanta]

(***************************************************************************)
(* Intestine model (model_intestine.py).                                   *)
(***************************************************************************)
n_chain == 5

\* 450.909 g/mole, rounded: mass units per quantum of amount
Mr_emp == 451

\* F_emp_abs = 0.65 = F_emp_abs_num / F_scale
F_emp_abs_num == 65
F_scale == 100

\* rate constants, in units of their own default value
EMPABS_k == 1
METEXC_k == 1
Ka_dis_emp == 2

\* volumes in 1e-5 liter
Vgu == 128250
Vlumen == (Vgu * 9) \div 10
Vintestine(k) == Vlumen \div n_chain

substance_info == {"emp", "eg"}

Lumen(sid) == <<sid, "lumen", 0>>
Feces(sid) == <<sid, "feces", 0>>
Intestine(sid, k) == <<sid, "intestine", k>>
emp_ext == <<"emp", "ext", 0>>
emp_stomach == <<"emp", "stomach", 0>>

ChainSpecies(sid) == {Intestine(sid, k) : k \in 0 .. n_chain - 1}

Species ==
    {emp_stomach, emp_ext}
        \cup {Lumen(sid) : sid \in substance_info}
        \cup {Feces(sid) : sid \in substance_info}
        \cup UNION {ChainSpecies(sid) : sid \in substance_info}

\* boundaryCondition=True: reactions do not change the species
BoundarySpecies == {emp_stomach}

\* the product of the excretion reaction of stage k
ProductSkipsLast(sid, k) ==
    IF k < n_chain - 2 THEN Intestine(sid, k + 1) ELSE Feces(sid)

\* the last stage of every substance drains into the feces of emp
ProductEmpFeces(sid, k) ==
    IF k < n_chain - 1 THEN Intestine(sid, k + 1) ELSE Feces("emp")

\* the product of stage k in a chain of n stages
product(n, sid, k) == IF k < n - 1 THEN Intestine(sid, k + 1) ELSE Feces(sid)

ChainProduct(sid, k) == product(n_chain, sid, k)

ChainReactions ==
    {[sid |-> <<sid, "EXC", k>>,
      reactant |-> Intestine(sid, k),
      product |-> ChainProduct(sid, k)] :
        sid \in substance_info, k \in 0 .. n_chain - 1}

EMPABS == [sid |-> <<"emp", "ABS", 0>>, reactant |-> Lumen("emp"), product |-> emp_ext]
EMPEXC == [sid |-> <<"emp", "EXC", -1>>, reactant |-> Lumen("emp"),
           product |-> Intestine("emp", 0)]
EGEXC == [sid |-> <<"eg", "EXC", -1>>, reactant |-> Lumen("eg"),
          product |-> Intestine("eg", 0)]

Reactions == {EMPABS, EMPEXC, EGEXC} \cup ChainReactions

\* AssignmentRule absorption = EMPABS_k * Vgu * emp_lumen, emp_lumen being the
\* concentration amt / Vlumen: the numerator over Vlumen
absorption == EMPABS_k * Vgu * amt[Lumen("emp")]

\* every excretion reaction takes the rate law of the lumen reaction
KineticLawOfLumen(r) ==
    IF r = EMPABS THEN F_emp_abs_num * absorption
    ELSE IF r = EMPEXC THEN (F_scale - F_emp_abs_num) * absorption
    ELSE METEXC_k * Vgu * amt[Lumen(r.sid[1])]

\* the kinetic law of a reaction (numerator; the denominator is positive)
KineticLaw(r) ==
    IF r = EMPABS THEN F_emp_abs_num * absorption
    ELSE IF r = EMPEXC THEN (F_scale - F_emp_abs_num) * absorption
    ELSE IF r = EGEXC THEN METEXC_k * Vgu * amt[Lumen("eg")]
    ELSE \* {SID}EXC_k = METEXC_k * Vintestine_k * [sid_intestine_k]
        METEXC_k * ((Vintestine(r.sid[3]) * amt[r.reactant]) \div Vintestine(r.sid[3]))

\* dissolution_emp = Ka_dis_emp/60 * PODOSE_emp/Mr_emp (numerator over 60 * Mr_emp)
dissolution_emp == Ka_dis_emp * PODOSE_emp

Move(a, r) ==
    [sp \in DOMAIN a |->
        IF sp \in BoundarySpecies THEN a[sp]
        ELSE IF sp = r.reactant THEN a[sp] - 1
        ELSE IF sp = r.product THEN a[sp] + 1
        ELSE a[sp]]

IsChainPlace(sp) == sp[2] \in {"intestine", "feces"}

\* one quantum passes through reaction r
Fire(r) ==
    /\ KineticLaw(r) > 0
    /\ amt[r.reactant] > 0
    /\ amt' = Move(amt, r)
    /\ entered' =
        IF r \in {EMPEXC, EGEXC}
        THEN [entered EXCEPT ![r.sid[1]] = @ + 1]
        ELSE entered
    /\ order' =
        IF IsChainPlace(r.product)
                /\ \A i \in 1 .. Len(order[r.sid[1]]) : order[r.sid[1]][i] # r.product
        THEN [order EXCEPT ![r.sid[1]] = Append(@, r.product)]
        ELSE order
    /\ UNCHANGED <<PODOSE_emp, eg_li, dose0>>

\* Reaction dissolution_emp: emp_stomach -> emp_lumen, with
\* RateRule PODOSE_emp' = -dissolution_emp * Mr_emp
Dissolution ==
    /\ dissolution_emp > 0
    /\ PODOSE_emp >= Mr_emp
    /\ PODOSE_emp' = PODOSE_emp - Mr_emp
    /\ amt' = [amt EXCEPT ![Lumen("emp")] = @ + 1]
    /\ UNCHANGED <<eg_li, dose0, entered, order>>

\* Liver: EGBIEX (eg -> eg_bi) and EGEHC (eg_bi -> eg_lumen) run at the same rate
EGEHC ==
    /\ eg_li > 0
    /\ eg_li' = eg_li - 1
    /\ amt' = [amt EXCEPT ![Lumen("eg")] = @ + 1]
    /\ UNCHANGED <<PODOSE_emp, dose0, entered, order>>

ChainStart ==
    /\ amt = [sp \in Species |-> 0]
    /\ \E d \in 0 .. MaxDose : PODOSE_emp = d * Mr_emp /\ dose0 = d * Mr_emp
    /\ eg_li \in 0 .. MaxEg
    /\ entered = [sid \in substance_info |-> 0]
    /\ order = [sid \in substance_info |-> <<>>]

ChainStep ==
    \/ \E r \in Reactions : Fire(r)
    \/ Dissolution
    \/ EGEHC

\* a model without dose: nothing moves
ChainIdle ==
    /\ amt = [sp \in Species |-> 0]
    /\ PODOSE_emp = 0
    /\ dose0 = 0
    /\ eg_li = 0
    /\ entered = [sid \in substance_info |-> 0]
    /\ order = [sid \in substance_info |-> <<>>]

(***************************************************************************)
(* Rational numbers <<numerator, denominator>>, the denominator positive.  *)
(***************************************************************************)
RECURSIVE GCD(_, _)
GCD(a, b) == IF b = 0 THEN a ELSE GCD(b, a % b)

Abs(x) == IF x < 0 THEN -x ELSE x

Norm(n, d) ==
    LET g == GCD(Abs(n), Abs(d))
        sgn == IF d < 0 THEN -1 ELSE 1
    IN  <<sgn * (n \div g), sgn * (d \div g)>>

R(n) == <<n, 1>>
RAdd(a, b) == Norm(a[1] * b[2] + b[1] * a[2], a[2] * b[2])
RSub(a, b) == Norm(a[1] * b[2] - b[1] * a[2], a[2] * b[2])
RMul(a, b) == Norm(a[1] * b[1], a[2] * b[2])
RDiv(a, b) == Norm(a[1] * b[2], a[2] * b[1])
RLt(a, b) == a[1] * b[2] < b[1] * a[2]
RLe(a, b) == a[1] * b[2] <= b[1] * a[2]
REq(a, b) == a[1] * b[2] = b[1] * a[2]

RECURSIVE power(_, _)
power(x, n) == IF n = 0 THEN 1 ELSE x * power(x, n - 1)

(***************************************************************************)
(* Kidney model (model_kidney.py).                                         *)
(***************************************************************************)
GFR_healthy == 100
cf_ml_per_l == 1000
fpg_healthy == 5
EMPEX_k == 3
Vki == 3

\* RTG_base: 12.5 mM in the model, 12.3977 mM (fitted) in the experiments
RTG_base_values == {<<25, 2>>, <<62, 5>>}
\* RTG_m_fpg: 0.5 in the model, 0.898 (fitted) in the experiments
RTG_m_fpg_values == {<<1, 2>>, <<9, 10>>}
\* RTG_max_inhibition: 0.75 in the model, 0.684 (fitted) in the experiments
RTG_max_inhibition_values == {<<3, 4>>, <<17, 25>>}
\* f_renal_function: 1.0 in the model, 0.1 .. 2.0 in the renal scan
f_renal_function_values == {<<1, 2>>, <<1, 1>>}
\* [KI__fpg]: 5 mM in the model; the studies set 0.9 .. 11 mM, the healthy
\* subjects of the experiments have 6.5 mM
fpg_values == {<<1, 1>>, <<5, 1>>, <<13, 2>>, <<10, 1>>}

KidneyParameters ==
    [RTG_E50 : 1 .. MaxE50,
     RTG_gamma : 1 .. MaxGamma,
     RTG_base : RTG_base_values,
     RTG_m_fpg : RTG_m_fpg_values,
     RTG_max_inhibition : RTG_max_inhibition_values,
     f_renal_function : f_renal_function_values]

\* AssignmentRule RTG_fpg
RTG_fpg(p, fpg) == RAdd(p.RTG_base, RMul(p.RTG_m_fpg, RSub(fpg, R(fpg_healthy))))

\* AssignmentRule RTG_delta
RTG_delta(p, fpg) == RMul(RTG_fpg(p, fpg), p.RTG_max_inhibition)

\* the Hill term with numerator and denominator exchanged
RTGInvertedHill(p, fpg, e) ==
    RSub(RTG_fpg(p, fpg),
         RDiv(RMul(RTG_delta(p, fpg), R(power(p.RTG_E50, p.RTG_gamma))),
              R(power(p.RTG_E50, p.RTG_gamma) + power(e, p.RTG_gamma))))

\* the inhibition term added instead of subtracted
RTGRaised(p, fpg, e) ==
    RAdd(RTG_fpg(p, fpg),
         RDiv(RMul(RTG_delta(p, fpg), R(power(e, p.RTG_gamma))),
              R(power(p.RTG_E50, p.RTG_gamma) + power(e, p.RTG_gamma))))

\* AssignmentRule RTG = RTG_fpg - RTG_delta * power(emp_ext, RTG_gamma)
\*                      / (power(RTG_E50, RTG_gamma) + power(emp_ext, RTG_gamma))
RTG(p, fpg, e) ==
    RSub(RTG_fpg(p, fpg),
         RDiv(RMul(RTG_delta(p, fpg), R(power(e, p.RTG_gamma))),
              R(power(p.RTG_E50, p.RTG_gamma) + power(e, p.RTG_gamma))))

\* AssignmentRule GFR
GFR(p) == RMul(p.f_renal_function, R(GFR_healthy))

\* the linear law without its threshold
GLCEXLinear(p, fpg, e) ==
    RMul(RDiv(GFR(p), R(cf_ml_per_l)), RSub(fpg, RTG(p, fpg, e)))

\* Reaction GLCEX:
\* piecewise(GFR/cf_ml_per_l * (fpg - RTG), fpg > RTG, 0 mmole_per_min)
GLCEX(p, fpg, e) ==
    IF RLt(RTG(p, fpg, e), fpg)
    THEN RMul(RDiv(GFR(p), R(cf_ml_per_l)), RSub(fpg, RTG(p, fpg, e)))
    ELSE R(0)

\* Reaction EMPEX = f_renal_function * EMPEX_k * Vki * emp_ext
EMPEX_rate(p, e) == RMul(p.f_renal_function, R(EMPEX_k * Vki * e))

\* empagliflozin reaches the plasma of the kidney (emp_ext is a port)
PlasmaInflow ==
    /\ KI__emp_ext + KI__emp_urine < MaxEmp
    /\ KI__emp_ext' = KI__emp_ext + 1
    /\ UNCHANGED <<KI__par, KI__fpg, KI__emp_urine, KI__glc_urine>>

\* Reaction EMPEX: emp_ext -> emp_urine
EMPEX ==
    /\ RLt(R(0), EMPEX_rate(KI__par, KI__emp_ext))
    /\ KI__emp_ext' = KI__emp_ext - 1
    /\ KI__emp_urine' = KI__emp_urine + 1
    /\ UNCHANGED <<KI__par, KI__fpg, KI__glc_urine>>

\* Reaction GLCEX: fpg -> glc_urine [emp_ext]; fpg is a boundary species
GlucoseExcretion ==
    /\ RLt(R(0), GLCEX(KI__par, KI__fpg, KI__emp_ext))
    /\ KI__glc_urine < MaxGlc
    /\ KI__glc_urine' = KI__glc_urine + 1
    /\ UNCHANGED <<KI__par, KI__fpg, KI__emp_ext, KI__emp_urine>>

KidneyStart ==
    /\ KI__par \in KidneyParameters
    /\ KI__fpg \in fpg_values
    /\ KI__emp_ext = 0
    /\ KI__emp_urine = 0
    /\ KI__glc_urine = 0

KidneyStep ==
    \/ PlasmaInflow
    \/ EMPEX
    \/ GlucoseExcretion

\* the kidney of a run without drug, with the parameters of the model file
KidneyIdle ==
    /\ KI__par = [RTG_E50 |-> 1, RTG_gamma |-> 1, RTG_base |-> <<25, 2>>,
                  RTG_m_fpg |-> <<1, 2>>, RTG_max_inhibition |-> <<3, 4>>,
                  f_renal_function |-> <<1, 1>>]
    /\ KI__fpg = R(fpg_healthy)
    /\ KI__emp_ext = 0
    /\ KI__emp_urine = 0
    /\ KI__glc_urine = 0

(***************************************************************************)
(* The building of the intestine model (model_intestine.py): the loop over *)
(* the chain stages, for a chain length n_chain = build_n.                 *)
(***************************************************************************)
\* substance_info in the order of its keys
substance_order == <<"emp", "eg">>

\* the species and reactions the model has before the loop
BaseSpecies ==
    {emp_stomach, emp_ext}
        \cup {Lumen(sid) : sid \in substance_info}
        \cup {Feces(sid) : sid \in substance_info}

BaseReactions == {EMPABS, EMPEXC, EGEXC}

\* the stage volume without the division by the chain length
Vintestine_undivided(n) == R(Vlumen)

\* Compartment Vintestine_k: 1.2825 * 0.9 / n_chain
Vintestine_value(n) == RDiv(R(Vlumen), R(n))

\* 0.0171 [l/kg] * body weight * 0.9, body weight in 0.1 kg
LumenVolume(BW) == (171 * BW * 9) \div 10

\* lumen volumes of the body weights 75 kg, 78 kg and 81.5 kg
LumenVolumes == {LumenVolume(BW) : BW \in {750, 780, 815}}

BuildDone == pc = <<build_n, 0>>

\* for k in range(n_chain): _m.compartments.append(Compartment(Vintestine_k))
AppendCompartment ==
    /\ pc[2] = 0
    /\ pc[1] < build_n
    /\ m_compartments' = Append(m_compartments, Vintestine_value(build_n))
    /\ pc' = <<pc[1], 1>>
    /\ UNCHANGED <<build_n, m_species, m_reactions, Vlumen_now>>

\* for sid in substance_info: the species of the stage and its reaction
AppendSubstance ==
    /\ pc[2] \in DOMAIN substance_order
    /\ LET k   == pc[1]
           sid == substance_order[pc[2]]
       IN  /\ m_species' = m_species \cup {Intestine(sid, k)}
           /\ m_reactions' = m_reactions \cup
                {[sid |-> <<sid, "EXC", k>>,
                  reactant |-> Intestine(sid, k),
                  product |-> product(build_n, sid, k)]}
    /\ pc' = IF pc[2] < Len(substance_order) THEN <<pc[1], pc[2] + 1>>
             ELSE <<pc[1] + 1, 0>>
    /\ UNCHANGED <<build_n, m_compartments, Vlumen_now>>

\* Vlumen (constant=False, port=True) is given another value
ChangeVlumen ==
    /\ BuildDone
    /\ \E v \in LumenVolumes \ {Vlumen_now} : Vlumen_now' = v
    /\ UNCHANGED <<build_n, pc, m_compartments, m_species, m_reactions>>

BuildStart ==
    /\ build_n \in 0 .. MaxChain
    /\ pc = <<0, 0>>
    /\ m_compartments = <<>>
    /\ m_species = BaseSpecies
    /\ m_reactions = BaseReactions
    /\ Vlumen_now = Vlumen

BuildStep ==
    \/ AppendCompartment
    \/ AppendSubstance
    \/ ChangeVlumen

\* the model as built with n_chain stages
BuildIdle ==
    /\ build_n = n_chain
    /\ pc = <<n_chain, 0>>
    /\ m_compartments = [k \in 1 .. n_chain |-> Vintestine_value(n_chain)]
    /\ m_species = Species
    /\ m_reactions = Reactions
    /\ Vlumen_now = Vlumen

(***************************************************************************)
(* Pharmacokinetic parameters of a scan (empagliflozin_pk.py).             *)
(***************************************************************************)
substance_ids == <<"emp", "eg", "emptot">>
substances == <<"empagliflozin", "empagliflozin-glucuronide", "total empagliflozin">>

\* oral doses of the scanned simulations [mg]
ScanDoses == {10, 50}

\* the values of PODOSE_emp at one scan point, over n2 points of the other
\* scanned dimension (one value if there is no other dimension)
DoseEntries(n2) == {[j \in 1 .. n2 |-> d] : d \in ScanDoses}

\* a result with the scanned dimensions dims (their sizes) and PODOSE_emp at
\* the first time point, per point of the first scanned dimension
XResults ==
    {[dims |-> <<n>>, PODOSE_emp |-> dose] :
        n \in 1 .. MaxScan, dose \in UNION {[1 .. m -> DoseEntries(1)] : m \in 1 .. MaxScan}}
    \cup
    UNION {{[dims |-> <<n, n2>>, PODOSE_emp |-> dose] :
                n \in 1 .. MaxScan,
                dose \in UNION {[1 .. m -> DoseEntries(n2)] : m \in 1 .. MaxScan}} :
            n2 \in 2 .. MaxScan}

\* PODOSE_emp has the shape of the scanned dimensions
WellShaped(x) == Len(x.PODOSE_emp) = x.dims[1]

\* xres._redop_dims()[-1]: the last scanned dimension is taken
scandim_last == Len(xres.dims)

\* scandim = xres._redop_dims()[0]: the first scanned dimension
scandim == 1

\* dose_vec = xres["PODOSE_emp"].values[0]
dose_vec == xres.PODOSE_emp

\* what TimecoursePK does with the concentrations of one scan point: for a
\* result with one scanned dimension the parameters; undefined otherwise
TimecoursePK(x) == IF Len(x.dims) = 1 THEN {"pk"} ELSE {"pk", "raise"}

\* every row is labelled with the first substance
pk_dict_first(k, j) ==
    [substance |-> substances[1],
     c_vec |-> <<substance_ids[j + 1], scandim, k>>,
     dose |-> dose_vec[k + 1]]

\* the row of scan point k and substance j: computed from the
\* concentrations [Cve_sid] selected at scandim = k, labelled with substance
pk_dict(k, j) ==
    [substance |-> substances[j + 1],
     c_vec |-> <<substance_ids[j + 1], scandim, k>>,
     dose |-> dose_vec[k + 1]]

\* one pass of the inner loop
PkIterate ==
    /\ pk_pc = "loop"
    /\ k_dose < Len(dose_vec)
    /\ \E outcome \in TimecoursePK(xres) :
          IF outcome = "pk"
          THEN /\ pk_dicts' = Append(pk_dicts, pk_dict(k_dose, k_sid))
               /\ IF k_sid + 1 < Len(substance_ids)
                  THEN k_sid' = k_sid + 1 /\ k_dose' = k_dose
                  ELSE k_sid' = 0 /\ k_dose' = k_dose + 1
               /\ pk_pc' = pk_pc
          ELSE /\ pk_pc' = "raised"
               /\ UNCHANGED <<pk_dicts, k_dose, k_sid>>
    /\ UNCHANGED xres

\* return pd.DataFrame(pk_dicts)
PkReturn ==
    /\ pk_pc = "loop"
    /\ k_dose = Len(dose_vec)
    /\ pk_pc' = "returned"
    /\ UNCHANGED <<xres, k_dose, k_sid, pk_dicts>>

PkStart ==
    /\ xres \in {x \in XResults : WellShaped(x)}
    /\ k_dose = 0
    /\ k_sid = 0
    /\ pk_dicts = <<>>
    /\ pk_pc = "loop"

PkStep ==
    \/ PkIterate
    \/ PkReturn

\* no pk calculation
PkIdle ==
    /\ xres = [dims |-> <<1>>, PODOSE_emp |-> <<<<10>>>>]
    /\ k_dose = 1
    /\ k_sid = 0
    /\ pk_dicts = <<>>
    /\ pk_pc = "idle"

(***************************************************************************)
(* Unit conversion of pharmacokinetic parameters (scan_parameter.py).      *)
(* A unit has a dimension (exponents of amount and of mass, and the rest)  *)
(* and a scale against the base unit of its dimension; "u" stands for      *)
(* micro.                                                                  *)
(***************************************************************************)
Unit(amount, mass, rest, scale) ==
    [amount |-> amount, mass |-> mass, rest |-> rest, scale |-> scale]

Units ==
    [ng_per_ml |-> Unit(0, 1, "1/volume", 1),
     mg_per_l |-> Unit(0, 1, "1/volume", 1000),
     umole_per_l |-> Unit(1, 0, "1/volume", 1),
     mmole_per_l |-> Unit(1, 0, "1/volume", 1000),
     ng_per_ml_hr |-> Unit(0, 1, "time/volume", 60),
     umole_per_l_hr |-> Unit(1, 0, "time/volume", 60),
     hr |-> Unit(0, 0, "time", 60),
     min |-> Unit(0, 0, "time", 1)]

\* EmpagliflozinSimulationExperiment.pk_units
pk_units ==
    [auc |-> "umole_per_l_hr", aucinf |-> "ng_per_ml_hr", tmax |-> "hr",
     cmax |-> "ng_per_ml", thalf |-> "hr"]

\* Mr: emp = 450.909 g/mole, eg = 627 g/mole (fractions)
Mr == [emp |-> RDiv(R(450909), R(1000)), eg |-> R(627)]

\* no molar mass
None == R(0)

\* substance.lower() of the substance names that occur
Lower ==
    [Empagliflozin |-> "empagliflozin", empagliflozin |-> "empagliflozin",
     eg |-> "eg", EG |-> "eg",
     total_empagliflozin |-> "total empagliflozin",
     empagliflozin_glucuronide |-> "empagliflozin-glucuronide",
     glucose |-> "glucose"]

SubstanceNames == DOMAIN Lower \cup {"None"}

MolarMasses ==
    [x \in {"empagliflozin", "empagliflozin-glucuronide", "eg", "total empagliflozin"} |->
        IF x \in {"empagliflozin", "total empagliflozin"} THEN Mr.emp ELSE Mr.eg]

\* the molar mass of empagliflozin for every substance that is not known
molar_mass_or_emp(substance) ==
    IF substance = "None" THEN Mr.emp
    ELSE IF Lower[substance] \in DOMAIN MolarMasses THEN MolarMasses[Lower[substance]]
    ELSE Mr.emp

\* dict.get(substance.lower()): the molar mass, or None
molar_mass_for_substance(substance) ==
    IF substance = "None" THEN None
    ELSE IF Lower[substance] \in DOMAIN MolarMasses THEN MolarMasses[Lower[substance]]
    ELSE None

SameDimension(u, v) == u.amount = v.amount /\ u.mass = v.mass /\ u.rest = v.rest

\* a quantity: magnitude (a fraction) and unit
Quantity(magnitude, unit) == [magnitude |-> magnitude, unit |-> unit]

\* y.to(unit), for units of the same dimension
To(y, unit) == Quantity(RDiv(RMul(y.magnitude, R(y.unit.scale)), R(unit.scale)), unit)

\* y * molar_mass: g/mole turns one power of amount into one of mass
TimesMolarMass(y, molar_mass) ==
    Quantity(RMul(y.magnitude, molar_mass),
             Unit(y.unit.amount - 1, y.unit.mass + 1, y.unit.rest, y.unit.scale))

target_unit == Units[pk_units[conv_in.pk_key]]

NoQuantity == Quantity(R(0), Unit(0, 0, "none", 1))

\* try: return y.to(target_unit)
ConvTry ==
    /\ conv_pc = "try"
    /\ attempts' = Append(attempts, "direct")
    /\ IF SameDimension(conv_in.y.unit, target_unit)
       THEN conv_pc' = "returned" /\ conv_out' = To(conv_in.y, target_unit)
       ELSE conv_pc' = "except" /\ conv_out' = conv_out
    /\ UNCHANGED conv_in

\* except DimensionalityError: with a molar mass convert y * molar_mass,
\* without one raise
ConvExcept ==
    /\ conv_pc = "except"
    /\ LET molar_mass == molar_mass_for_substance(conv_in.substance)
       IN  IF molar_mass = None
           THEN conv_pc' = "raised" /\ UNCHANGED <<conv_out, attempts>>
           ELSE /\ attempts' = Append(attempts, "molar mass")
                /\ LET y2 == TimesMolarMass(conv_in.y, molar_mass)
                   IN  IF SameDimension(y2.unit, target_unit)
                       THEN conv_pc' = "returned" /\ conv_out' = To(y2, target_unit)
                       ELSE conv_pc' = "raised" /\ conv_out' = conv_out
    /\ UNCHANGED conv_in

ConvStart ==
    /\ conv_in \in [y : {Quantity(R(v), Units[u]) : v \in 1 .. MaxValue, u \in DOMAIN Units},
                    pk_key : DOMAIN pk_units,
                    substance : SubstanceNames]
    /\ conv_pc = "try"
    /\ conv_out = NoQuantity
    /\ attempts = <<>>

ConvStep ==
    \/ ConvTry
    \/ ConvExcept

\* no conversion
ConvIdle ==
    /\ conv_in = [y |-> Quantity(R(1), Units.hr), pk_key |-> "tmax", substance |-> "None"]
    /\ conv_pc = "idle"
    /\ conv_out = NoQuantity
    /\ attempts = <<>>

(***************************************************************************)
(* Study data on the panels of a parameter scan (scan_parameter.py).       *)
(* A panel is a pk panel of one pk_key (two calls that add study data, one *)
(* per substance) or the UGE panel (one call).  The rows of the study data *)
(* carry a mean and no unit, sd, median or range.                          *)
(***************************************************************************)
plot_substances == <<"empagliflozin", "empagliflozin-glucuronide">>

scalable_params == {"cmax", "aucinf"}

markers == <<"s", "^", "D", "v", "<", ">", "p", "*", "h", "X">>

\* PODOSE_emp of the renal and the hepatic scan [mg]
sim_dose_value == 50

\* row['condition'].lower(); "NaN" is the missing label
LowerCondition == [Mild |-> "mild", esrd |-> "esrd", NaN |-> "None"]

\* label -> entry of renal_map or cirrhosis_map
condition_map(scan_key) ==
    IF scan_key = "renal_scan"
    THEN [normal |-> <<"renal_map", "Normal renal function">>,
          mild |-> <<"renal_map", "Mild renal impairment">>,
          moderate |-> <<"renal_map", "Moderate renal impairment">>,
          severe |-> <<"renal_map", "Severe renal impairment">>]
    ELSE [normal |-> <<"cirrhosis_map", "Control">>,
          mild |-> <<"cirrhosis_map", "Mild cirrhosis">>,
          moderate |-> <<"cirrhosis_map", "Moderate cirrhosis">>,
          severe |-> <<"cirrhosis_map", "Severe cirrhosis">>]

StudyRows ==
    [substance : {"empagliflozin", "empagliflozin-glucuronide"},
     parameter : {"cmax", "tmax", "UGE_24"},
     study : {"Study1", "Study2"},
     condition : DOMAIN LowerCondition,
     dose : {sim_dose_value, 10},
     mean : 1 .. MaxMean]

StudyData == UNION {[1 .. n -> StudyRows] : n \in 0 .. MaxRows}

Panels ==
    {[panel |-> "pk", pk_key |-> k] : k \in {"cmax", "tmax"}}
        \cup {[panel |-> "uge", pk_key |-> "UGE_24"]}

\* the calls of a subplot that add study data
Calls ==
    IF plot_in.panel = "pk" THEN plot_substances ELSE <<"UGE_24">>

PkRow(r, substance) == r.substance = substance /\ r.parameter = plot_in.pk_key

\* df_filtered of the call
df_filtered(call) ==
    LET Test(r) == IF plot_in.panel = "pk" THEN PkRow(r, call) ELSE r.parameter = "UGE_24"
    IN  SelectSeq(plot_in.df, Test)

\* the studies of the rows in the order of their first row
RECURSIVE unique(_)
unique(rows) ==
    IF rows = <<>> THEN <<>>
    ELSE LET before == unique(SubSeq(rows, 1, Len(rows) - 1))
             study == rows[Len(rows)].study
         IN  IF \E i \in 1 .. Len(before) : before[i] = study
             THEN before
             ELSE Append(before, study)

\* {study: markers[i % len(markers)]}
study_marker_map(rows) ==
    LET studies == unique(rows)
    IN  {<<studies[i], markers[((i - 1) % Len(markers)) + 1]>> : i \in 1 .. Len(studies)}

\* dict.update
Update(old, new) ==
    {p \in old : \A q \in new : q[1] # p[1]} \cup new

RMax(a, b) == IF RLt(a, b) THEN b ELSE a

\* what a call that adds study data returns
Returned(none, y, info) == [none |-> none, max_y |-> y, markers |-> info]

\* return 0.0 and an empty marker map
ZeroContribution == Returned(FALSE, R(0), {})

\* return None, None
NoContribution == Returned(TRUE, R(0), {})

\* the call begins: no row for the substance and parameter returns None, None
PlotCall ==
    /\ plot_pc = "call"
    /\ plot_call <= Len(Calls)
    /\ IF Len(df_filtered(Calls[plot_call])) = 0
       THEN /\ returns' = Append(returns, NoContribution)
            /\ plot_call' = plot_call + 1
            /\ UNCHANGED <<plot_pc, plot_i, max_y>>
       ELSE /\ plot_pc' = "rows"
            /\ plot_i' = 1
            /\ max_y' = R(0)
            /\ UNCHANGED <<plot_call, returns>>
    /\ UNCHANGED <<plot_in, study_max_y, study_markers, studies_in_legend, drawn,
                   ylim, skipped>>

\* one pass of the row loop
PlotRow ==
    /\ plot_pc = "rows"
    /\ plot_i <= Len(df_filtered(Calls[plot_call]))
    /\ LET row == df_filtered(Calls[plot_call])[plot_i]
           condition == LowerCondition[row.condition]
           by_condition == plot_in.scan_key # "dose_scan"
           unmapped == by_condition /\ condition \notin DOMAIN condition_map(plot_in.scan_key)
           other_dose == by_condition /\ row.dose # sim_dose_value
           scalable == plot_in.pk_key \in scalable_params
           \* UGE rows: the dose is tested before the label
           left_for_dose == IF plot_in.panel = "pk"
                            THEN ~unmapped /\ other_dose /\ ~scalable
                            ELSE other_dose
           left_for_label == IF plot_in.panel = "pk"
                             THEN unmapped
                             ELSE ~other_dose /\ unmapped
           x_pos == IF by_condition
                    THEN condition_map(plot_in.scan_key)[condition]
                    ELSE <<"dose", row.dose>>
           dose_ratio == IF by_condition /\ plot_in.panel = "pk"
                         THEN RDiv(R(sim_dose_value), R(row.dose))
                         ELSE R(1)
           y_value == IF scalable THEN RMul(R(row.mean), dose_ratio) ELSE R(row.mean)
       IN  IF left_for_dose \/ left_for_label
           THEN /\ skipped' = IF left_for_label
                              THEN skipped \cup {<<plot_call, plot_i>>}
                              ELSE skipped
                /\ UNCHANGED <<studies_in_legend, drawn, max_y>>
           ELSE /\ studies_in_legend' = studies_in_legend \cup {row.study}
                /\ drawn' = drawn \cup {[call |-> plot_call, row |-> plot_i,
                                         x |-> x_pos, y |-> y_value]}
                /\ max_y' = RMax(max_y, y_value)
                /\ UNCHANGED skipped
    /\ plot_i' = plot_i + 1
    /\ UNCHANGED <<plot_in, plot_pc, plot_call, study_max_y, study_markers, ylim, returns>>

\* return max_y, study_marker_map; the subplot takes both over
PlotReturn ==
    /\ plot_pc = "rows"
    /\ plot_i > Len(df_filtered(Calls[plot_call]))
    /\ LET info == study_marker_map(df_filtered(Calls[plot_call]))
       IN  /\ returns' = Append(returns, Returned(FALSE, max_y, info))
           /\ study_max_y' = RMax(study_max_y, max_y)
           /\ study_markers' = Update(study_markers, info)
    /\ plot_call' = plot_call + 1
    /\ plot_pc' = "call"
    /\ UNCHANGED <<plot_in, plot_i, max_y, studies_in_legend, drawn, ylim, skipped>>

\* ax.set_ylim(bottom=0.0, top=1.05 * ymax)
PlotFormat ==
    /\ plot_pc = "call"
    /\ plot_call > Len(Calls)
    /\ ylim' = RMul(RDiv(R(105), R(100)), RMax(R(plot_in.sim_ymax), study_max_y))
    /\ plot_pc' = "done"
    /\ UNCHANGED <<plot_in, plot_call, plot_i, max_y, study_max_y, study_markers,
                   studies_in_legend, drawn, returns, skipped>>

PlotLocals ==
    /\ plot_call = 1
    /\ plot_i = 1
    /\ max_y = R(0)
    /\ study_max_y = R(0)
    /\ study_markers = {}
    /\ studies_in_legend = {}
    /\ drawn = {}
    /\ ylim = R(0)
    /\ returns = <<>>
    /\ skipped = {}

PlotStart ==
    /\ plot_in \in {[panel |-> p.panel, pk_key |-> p.pk_key, scan_key |-> k, df |-> df,
                     sim_ymax |-> y] :
                        p \in Panels, k \in {"renal_scan", "hepatic_scan", "dose_scan"},
                        df \in StudyData, y \in 0 .. MaxMean}
    /\ plot_pc = "call"
    /\ PlotLocals

PlotStep ==
    \/ PlotCall
    \/ PlotRow
    \/ PlotReturn
    \/ PlotFormat

\* no panel is plotted
PlotIdle ==
    /\ plot_in = [panel |-> "pk", pk_key |-> "cmax", scan_key |-> "dose_scan", df |-> <<>>,
                  sim_ymax |-> 0]
    /\ plot_pc = "idle"
    /\ PlotLocals

(***************************************************************************)
(* Experiment registries and the filters of the fit mappings               *)
(* (fitting/fit_experiments.py, simulations.py, experiments/metadata.py).  *)
(***************************************************************************)
Range(s) == {s[i] : i \in DOMAIN s}

\* fit_experiments.experiment_classes
experiment_classes ==
    <<"Ayoub2017", "Brand2012", "Chen2015a", "Chen2020", "ElDash2021", "Friedrich2013",
      "Hailat2022", "Heise2013", "Heise2013a", "Heise2015", "Jiang2023b", "Kim2021",
      "Kim2023", "Li2020", "Macha2014b", "Macha2014f", "Macha2015a", "Sarashina2013",
      "Sarashina2014", "Seman2013", "Zhao2015">>

\* simulations.EXPERIMENTS
EXPERIMENTS ==
    LET studies == <<"Ayoub2017", "Brand2012", "Chen2015a", "Chen2020", "ElDash2021",
                     "Friedrich2013", "Heise2013", "Heise2013a", "Heise2015", "Jiang2023b",
                     "Kim2021", "Kim2023", "Li2020", "Macha2014b", "Macha2014f",
                     "Macha2015a", "Sarashina2013", "Sarashina2014", "Seman2013",
                     "vanderAartvanderBeek2020", "Zhao2015">>
        misc == <<"DoseDependencyExperiment">>
    IN  [studies |-> studies,
         pharmacodynamics |-> <<"ElDash2021", "Heise2013", "Heise2013a", "Macha2014b",
                                "Macha2015a", "Sarashina2013", "Seman2013">>,
         dose_dependency |-> <<"Heise2013", "Heise2013a", "Macha2015a", "Sarashina2013",
                               "Seman2013", "Zhao2015">>,
         hepatic_impairment |-> <<"Macha2014b">>,
         renal_impairment |-> <<"Macha2014f", "Sarashina2014">>,
         misc |-> misc,
         scan |-> <<"EmpagliflozinParameterScan">>,
         all |-> studies \o misc]

Tissue == {"PLASMA", "SERUM", "URINE", "FECES"}
Route == {"PO", "IV"}
Dosing == {"SINGLE", "MULTIPLE", "CONSTANT_INFUSION"}
ApplicationForm == {"TABLET", "SOLUTION", "CAPSULE", "MIXED", "NR"}
Health ==
    {"HEALTHY", "T2DM", "HYPERTENSION", "CIRRHOSIS", "RENAL_IMPAIRMENT", "HEPATIC_IMPAIRMENT",
     "CHF", "T2DM_RENAL_IMPAIRMENT", "T2DM_HEPATIC_IMPAIRMENT"}
Fasting == {"NR", "FASTED", "FED"}
Coadministration ==
    {"NONE", "CYCLOSPORINE", "EVOGLIPTIN", "HCTZ", "LINAGLIPTIN", "LOBEGLITAZONE",
     "METFORMIN", "PROBENECID", "RIFAMPICIN", "SITAGLIPTIN", "TORASEMIDE", "WARFARIN"}

EmpagliflozinMappingMetaData ==
    [tissue : Tissue, route : Route, application_form : ApplicationForm, dosing : Dosing,
     health : Health, fasting : Fasting, coadministration : Coadministration,
     outlier : BOOLEAN]

Hailat2022_interventions ==
    {"fasting_test", "fasting_reference", "fed_test", "fed_reference"}

\* the metadata of a Hailat2022 mapping, outlier flag left out
Hailat2022_metadata_unflagged(intervention) ==
    [tissue |-> "PLASMA", route |-> "PO", application_form |-> "TABLET",
     dosing |-> "SINGLE", health |-> "HEALTHY",
     fasting |-> IF intervention \in {"fasting_test", "fasting_reference"}
                 THEN "FASTED" ELSE "FED",
     coadministration |-> "NONE", outlier |-> FALSE]

\* the metadata of a Hailat2022 mapping
Hailat2022_metadata(intervention) ==
    [tissue |-> "PLASMA", route |-> "PO", application_form |-> "TABLET",
     dosing |-> "SINGLE", health |-> "HEALTHY",
     fasting |-> IF intervention \in {"fasting_test", "fasting_reference"}
                 THEN "FASTED" ELSE "FED",
     coadministration |-> "NONE", outlier |-> TRUE]

\* Hailat2022.fit_mappings()
Hailat2022_fit_mappings ==
    {[study |-> "Hailat2022", key |-> i, metadata |-> Hailat2022_metadata(i)] :
        i \in Hailat2022_interventions}

\* filter_control with the filter of multiple dosing
filter_control_single(metadata) ==
    IF metadata.route \notin {"PO", "IV"} THEN FALSE
    ELSE IF metadata.coadministration # "NONE" THEN FALSE
    ELSE IF metadata.health \notin {"HEALTHY", "T2DM", "HYPERTENSION"} THEN FALSE
    ELSE IF metadata.dosing = "MULTIPLE" THEN FALSE
    ELSE IF metadata.fasting \notin {"FASTED", "NR"} THEN FALSE
    ELSE IF metadata.outlier = TRUE THEN FALSE
    ELSE TRUE

filter_control(metadata) ==
    IF metadata.route \notin {"PO", "IV"} THEN FALSE
    ELSE IF metadata.coadministration # "NONE" THEN FALSE
    ELSE IF metadata.health \notin {"HEALTHY", "T2DM", "HYPERTENSION"} THEN FALSE
    ELSE IF metadata.fasting \notin {"FASTED", "NR"} THEN FALSE
    ELSE IF metadata.outlier = TRUE THEN FALSE
    ELSE TRUE

\* sbmlsim.fit.helpers.filter_empty: every mapping passes
filter_empty(metadata) == TRUE

\* f_fitexp_control: the mapping goes through filter_control
FitControl ==
    /\ fit_pc = "registered"
    /\ fit_result' = filter_control(fit_in.metadata)
    /\ fit_pc' = "control"
    /\ UNCHANGED fit_in

\* f_fitexp_all: the mapping goes through filter_empty
FitAll ==
    /\ fit_pc = "registered"
    /\ fit_result' = filter_empty(fit_in.metadata)
    /\ fit_pc' = "all"
    /\ UNCHANGED fit_in

\* a mapping of Hailat2022, or a mapping of any study with any metadata
FitStart ==
    /\ fit_in \in Hailat2022_fit_mappings
                    \cup {[study |-> "any", key |-> "any", metadata |-> m] :
                            m \in EmpagliflozinMappingMetaData}
    /\ fit_pc = "registered"
    /\ fit_result = FALSE

FitStep ==
    \/ FitControl
    \/ FitAll

\* no mapping is filtered
FitIdle ==
    /\ fit_in = [study |-> "none", key |-> "none", metadata |-> Hailat2022_metadata("fed_test")]
    /\ fit_pc = "idle"
    /\ fit_result = FALSE

(***************************************************************************)
(* Selection of the experiments to run (simulations.py).                   *)
(* A path is the sequence of its parts; <<>> is no path.                   *)
(***************************************************************************)
\* bool(selected): None and the empty string are false
Truthy(selected) == selected \notin {"None", ""}

\* the experiment class lists a caller passes: none, an empty list, lists
ClassLists ==
    {[given |-> FALSE, list |-> <<>>], [given |-> TRUE, list |-> <<>>],
     [given |-> TRUE, list |-> <<"Brand2012">>],
     [given |-> TRUE, list |-> <<"Hailat2022", "Kim2021">>]}

Selections == DOMAIN EXPERIMENTS \cup {"None", "", "unknown", "Studies"}

OutputDirs == {<<>>, <<"out">>}

\* an unknown group is run as the group 'all'
Selection_or_all(in) ==
    IF in.experiment_classes.given
    THEN [ok |-> TRUE, experiments_to_run |-> in.experiment_classes.list,
          output_dir |-> IF in.output_dir = <<>>
                         THEN <<"RESULTS_PATH_SIMULATION", "custom_selection">>
                         ELSE in.output_dir,
          message |-> ""]
    ELSE LET selected == IF in.selected \in DOMAIN EXPERIMENTS THEN in.selected ELSE "all"
         IN  [ok |-> TRUE, experiments_to_run |-> EXPERIMENTS[selected],
              output_dir |-> IF in.output_dir = <<>>
                             THEN <<"RESULTS_PATH_SIMULATION", selected>>
                             ELSE in.output_dir,
              message |-> ""]

\* "Determine which experiments to run"
Selection(in) ==
    IF in.experiment_classes.given
    THEN [ok |-> TRUE, experiments_to_run |-> in.experiment_classes.list,
          output_dir |-> IF in.output_dir = <<>>
                         THEN <<"RESULTS_PATH_SIMULATION", "custom_selection">>
                         ELSE in.output_dir,
          message |-> ""]
    ELSE IF Truthy(in.selected)
    THEN IF in.selected \notin DOMAIN EXPERIMENTS
         THEN [ok |-> FALSE, experiments_to_run |-> <<>>, output_dir |-> <<>>,
               message |-> "Error: Unknown group"]
         ELSE [ok |-> TRUE, experiments_to_run |-> EXPERIMENTS[in.selected],
               output_dir |-> IF in.output_dir = <<>>
                              THEN <<"RESULTS_PATH_SIMULATION", in.selected>>
                              ELSE in.output_dir,
               message |-> ""]
    ELSE [ok |-> FALSE, experiments_to_run |-> <<>>, output_dir |-> <<>>,
          message |-> "Error: No experiments specified!"]

\* the selection is made, or the error is printed and the function returns
SelSelect ==
    /\ sel_pc = "call"
    /\ LET s == Selection(sel_in)
       IN  IF s.ok
           THEN /\ experiments_to_run' = s.experiments_to_run
                /\ sel_output_dir' = s.output_dir
                /\ sel_pc' = "run"
                /\ UNCHANGED console
           ELSE /\ console' = Append(console, s.message)
                /\ sel_pc' = "returned"
                /\ UNCHANGED <<experiments_to_run, sel_output_dir>>
    /\ UNCHANGED <<sel_in, ran, dirs, dirs0>>

\* run_experiments(experiment_classes, output_dir): every experiment writes
\* its figures into its own directory under output_dir
SelRun ==
    /\ sel_pc = "run"
    /\ ran' = experiments_to_run
    /\ dirs' = dirs \cup {sel_output_dir}
                    \cup {Append(sel_output_dir, experiments_to_run[i]) :
                            i \in DOMAIN experiments_to_run}
    /\ sel_pc' = "collect"
    /\ UNCHANGED <<sel_in, experiments_to_run, sel_output_dir, console, dirs0>>

\* figures_dir.mkdir(parents=True, exist_ok=True) and the copies into it
SelCollect ==
    /\ sel_pc = "collect"
    /\ dirs' = dirs \cup {sel_output_dir, Append(sel_output_dir, "_figures")}
    /\ console' = Append(console, "Figures copied to")
    /\ sel_pc' = "returned"
    /\ UNCHANGED <<sel_in, experiments_to_run, sel_output_dir, ran, dirs0>>

SelStart ==
    /\ sel_in \in [selected : Selections, experiment_classes : ClassLists,
                   output_dir : OutputDirs]
    /\ sel_pc = "call"
    /\ experiments_to_run = <<>>
    /\ sel_output_dir = <<>>
    /\ ran = <<>>
    /\ console = <<>>
    /\ dirs \in {{}, {<<"out">>, <<"out", "_figures">>}}
    /\ dirs0 = dirs

SelStep ==
    \/ SelSelect
    \/ SelRun
    \/ SelCollect

\* run_simulation_experiments is not called
SelIdle ==
    /\ sel_in = [selected |-> "None", experiment_classes |-> [given |-> FALSE, list |-> <<>>],
                 output_dir |-> <<>>]
    /\ sel_pc = "idle"
    /\ experiments_to_run = <<>>
    /\ sel_output_dir = <<>>
    /\ ran = <<>>
    /\ console = <<>>
    /\ dirs = {}
    /\ dirs0 = {}

(***************************************************************************)
(* The split of the lumen outflow (model_intestine.py).  Amounts are in    *)
(* 1/F_scale quanta, so that the fractions of a quantum are whole.         *)
(***************************************************************************)
\* EMPEXC with the formula "absorption"
Formula_unsplit(r, absorbed) ==
    IF r = EMPABS THEN (F_emp_abs_num * absorbed) \div F_scale
    ELSE absorbed

\* the formula of a lumen reaction at the value absorbed of 'absorption':
\* F_emp_abs * absorption, (1 dimensionless - F_emp_abs) * absorption
Formula(r, absorbed) ==
    IF r = EMPABS THEN (F_emp_abs_num * absorbed) \div F_scale
    ELSE ((F_scale - F_emp_abs_num) * absorbed) \div F_scale

\* dissolution_emp: stomach -> lumen
SplitDissolve ==
    /\ \E d \in 1 .. ab_stomach \div F_scale :
            /\ ab_stomach' = ab_stomach - d * F_scale
            /\ ab_lumen' = ab_lumen + d * F_scale
    /\ UNCHANGED <<ab_dose, ab_absorbed, ab_chain, ab_feces, ab_flux>>

\* absorption leaves the lumen through EMPABS and EMPEXC
SplitOutflow ==
    /\ \E q \in 1 .. ab_lumen \div F_scale :
        LET out == q * F_scale
        IN  /\ ab_lumen' = ab_lumen - Formula(EMPABS, out) - Formula(EMPEXC, out)
            /\ ab_absorbed' = ab_absorbed + Formula(EMPABS, out)
            /\ ab_chain' = ab_chain + Formula(EMPEXC, out)
            /\ ab_flux' = [absorption |-> out, EMPABS |-> Formula(EMPABS, out),
                           EMPEXC |-> Formula(EMPEXC, out)]
    /\ UNCHANGED <<ab_dose, ab_stomach, ab_feces>>

\* the stages of the intestine pass what they hold on to the feces
SplitTransit ==
    /\ ab_chain > 0
    /\ \E c \in 1 .. ab_chain :
            /\ c % (F_scale - F_emp_abs_num) = 0
            /\ ab_chain' = ab_chain - c
            /\ ab_feces' = ab_feces + c
    /\ UNCHANGED <<ab_dose, ab_stomach, ab_lumen, ab_absorbed, ab_flux>>

NoFlux == [absorption |-> 0, EMPABS |-> 0, EMPEXC |-> 0]

SplitStart ==
    /\ ab_dose \in {d * F_scale : d \in 1 .. MaxOral}
    /\ ab_stomach = ab_dose
    /\ ab_lumen = 0
    /\ ab_absorbed = 0
    /\ ab_chain = 0
    /\ ab_feces = 0
    /\ ab_flux = NoFlux

SplitStep ==
    \/ SplitDissolve
    \/ SplitOutflow
    \/ SplitTransit

\* no dose
SplitIdle ==
    /\ ab_dose = 0
    /\ ab_stomach = 0
    /\ ab_lumen = 0
    /\ ab_absorbed = 0
    /\ ab_chain = 0
    /\ ab_feces = 0
    /\ ab_flux = NoFlux

(***************************************************************************)
(* The observable filters of the fitting (fitting/fit_experiments.py).     *)
(* A string is a sequence of tokens; "__" is a token of its own, so that   *)
(* "KI__UGE" is <<"KI", "__", "UGE">>.                                     *)
(***************************************************************************)
RECURSIVE split(_, _)
\* str.split(sep)
split(s, sep) ==
    IF \A i \in 1 .. Len(s) : s[i] # sep
    THEN <<s>>
    ELSE LET i == CHOOSE k \in 1 .. Len(s) :
                      s[k] = sep /\ \A j \in 1 .. k - 1 : s[j] # sep
         IN  <<SubSeq(s, 1, i - 1)>> \o split(SubSeq(s, i + 1, Len(s)), sep)

RECURSIVE join(_, _)
\* sep.join(parts)
join(sep, parts) ==
    IF parts = <<>> THEN <<>>
    ELSE IF Len(parts) = 1 THEN parts[1]
    ELSE parts[1] \o <<sep>> \o join(sep, Tail(parts))

\* yid = "__".join(fit_mapping.observable.y.sid.split("__")[1:])
yid_of(sid) == join("__", Tail(split(sid, "__")))

\* the set of filter_pk
filter_pk_yids ==
    {<<"Cve_emp">>, <<"Cve_eg">>, <<"Cve_emptot">>,
     <<"Aurine_emp">>, <<"Aurine_eg">>, <<"Aurine_emptot">>,
     <<"Afeces_emp">>, <<"Afeces_eg">>, <<"Afeces_emptot">>}

\* the set of filter_pd
filter_pd_yids == {<<"KI", "__", "RTG">>, <<"KI", "__", "UGE">>}

filter_pk(sid) == IF yid_of(sid) \notin filter_pk_yids THEN FALSE ELSE TRUE

filter_pd(sid) == IF yid_of(sid) \notin filter_pd_yids THEN FALSE ELSE TRUE

\* Chen2015a.info: observable and name of the data, in the order of the dict
Chen2015a_info ==
    << <<<<"[Cve_emptot]">>, <<"EMPTOT", "_", "plasma">>>>,
       <<<<"[Cve_emp]">>, <<"EMP", "_", "plasma">>>>,
       <<<<"[Cve_eg]">>, <<"EG", "_", "plasma">>>>,
       <<<<"Afeces_emptot">>, <<"EMPTOT", "_", "feces">>>>,
       <<<<"Afeces_emp">>, <<"EMP", "_", "feces">>>>,
       <<<<"Afeces_eg">>, <<"EG", "_", "feces">>>>,
       <<<<"Aurine_emptot">>, <<"EMPTOT", "_", "urine">>>>,
       <<<<"Aurine_emp">>, <<"EMP", "_", "urine">>>>,
       <<<<"Aurine_eg">>, <<"EG", "_", "urine">>>> >>

\* Macha2014f.info
Macha2014f_info ==
    << <<<<"[Cve_emp]">>, <<"empagliflozin">>>>,
       <<<<"Aurine_emp">>, <<"empagliflozin", "_", "urine">>>>,
       <<<<"KI", "__", "UGE">>, <<"uge">>>> >>

\* the keys of an info dict
keys(info) == {info[i][1] : i \in DOMAIN info}

\* other identifiers of the model: the set entries of filter_pk, and the
\* observables of the plots that no fit mapping uses
other_yids ==
    filter_pk_yids \cup {<<"KI", "__", "RTG">>, <<"KI", "__", "GLCEX">>}

\* task=f"task_{group}" of Macha2014f
Macha2014f_tasks == {<<"task_normal">>, <<"task_mild">>, <<"task_severe">>}

\* the identifier of an observable: <task>__<yid>
observable_sid(task, yid) == task \o <<"__">> \o yid

FilterPk ==
    /\ flt_sid # <<>>
    /\ "filter_pk" \notin flt_called
    /\ flt_called' = flt_called \cup {"filter_pk"}
    /\ flt_accepted' = IF filter_pk(flt_sid) THEN flt_accepted \cup {"filter_pk"}
                       ELSE flt_accepted
    /\ UNCHANGED flt_sid

FilterPd ==
    /\ flt_sid # <<>>
    /\ "filter_pd" \notin flt_called
    /\ flt_called' = flt_called \cup {"filter_pd"}
    /\ flt_accepted' = IF filter_pd(flt_sid) THEN flt_accepted \cup {"filter_pd"}
                       ELSE flt_accepted
    /\ UNCHANGED flt_sid

FilterStart ==
    /\ flt_sid \in {observable_sid(task, yid) :
                      task \in Macha2014f_tasks,
                      yid \in keys(Chen2015a_info) \cup keys(Macha2014f_info)
                                \cup other_yids}
    /\ flt_called = {}
    /\ flt_accepted = {}

FilterStep ==
    \/ FilterPk
    \/ FilterPd

FilterIdle ==
    /\ flt_sid = <<>>
    /\ flt_called = {}
    /\ flt_accepted = {}

(***************************************************************************)
(* The bile pool of the liver model (model_liver.py): amounts in quanta,   *)
(* one step moves the amount a flux carries in one interval of time.       *)
(***************************************************************************)
\* a first-order emptying of the bile pool
EGEHC_first_order(EGBIEX_flux, eg_bi) == eg_bi

\* Reaction EGEHC: formula=("EGBIEX", U.mmole_per_min)
EGEHC_formula(EGBIEX_flux, eg_bi) == EGBIEX_flux

\* the glucuronide in liver, plasma, bile and lumen, and what left the lumen
BileTotal == li_eg + li_eg_ext + li_eg_bi + li_eg_lumen + li_left

\* Reaction EMP2EG: emp -> eg
BileEMP2EG ==
    /\ BileTotal < MaxBile
    /\ li_eg' = li_eg + 1
    /\ UNCHANGED <<li_eg_ext, li_eg_bi, li_eg_lumen, li_exported, li_left, li_flux>>

\* Reaction EGEX: eg <-> eg_ext
BileEGEX ==
    /\ \/ li_eg > 0 /\ li_eg' = li_eg - 1 /\ li_eg_ext' = li_eg_ext + 1
       \/ li_eg_ext > 0 /\ li_eg' = li_eg + 1 /\ li_eg_ext' = li_eg_ext - 1
    /\ UNCHANGED <<li_eg_bi, li_eg_lumen, li_exported, li_left, li_flux>>

\* Reactions EGBIEX (eg -> eg_bi, EGBIEX_k * Vli * eg) and EGEHC
\* (eg_bi -> eg_lumen) over the same interval of time
BileExport ==
    \E q \in 1 .. li_eg :
      LET ehc == EGEHC_formula(q, li_eg_bi)
      IN  /\ li_eg' = li_eg - q
          /\ li_eg_bi' = li_eg_bi + q - ehc
          /\ li_eg_lumen' = li_eg_lumen + ehc
          /\ li_exported' = li_exported + q
          /\ li_flux' = [EGBIEX |-> q, EGEHC |-> ehc]
          /\ UNCHANGED <<li_eg_ext, li_left>>

\* Reaction EGEXC of the intestine: eg_lumen -> eg_intestine_0
BileLumenOutflow ==
    /\ li_eg_lumen > 0
    /\ li_eg_lumen' = li_eg_lumen - 1
    /\ li_left' = li_left + 1
    /\ UNCHANGED <<li_eg, li_eg_ext, li_eg_bi, li_exported, li_flux>>

BileStart ==
    /\ li_eg = 0
    /\ li_eg_ext = 0
    /\ li_eg_bi = 0
    /\ li_eg_lumen = 0
    /\ li_exported = 0
    /\ li_left = 0
    /\ li_flux = [EGBIEX |-> 0, EGEHC |-> 0]

BileStep ==
    \/ BileEMP2EG
    \/ BileEGEX
    \/ BileExport
    \/ BileLumenOutflow

BileIdle ==
    /\ li_eg = 0
    /\ li_eg_ext = 0
    /\ li_eg_bi = 0
    /\ li_eg_lumen = 0
    /\ li_exported = 0
    /\ li_left = 0
    /\ li_flux = [EGBIEX |-> 0, EGEHC |-> 0]

(***************************************************************************)
(* The tissue tags of the fit mappings (experiments/studies): the loops of *)
(* fit_mappings(). A name is a sequence of tokens, "_" a token of its own. *)
(***************************************************************************)
\* part in name, for a part that is one token
In(part, name) == \E i \in 1 .. Len(name) : name[i] = part

\* name.endswith("_" + part)
endswith(name, part) ==
    /\ Len(name) >= 2
    /\ name[Len(name) - 1] = "_"
    /\ name[Len(name)] = part

\* info of Brand2012, Friedrich2013 and Zhao2015
Zhao2015_info ==
    << <<<<"[Cve_emp]">>, <<"empagliflozin">>>>,
       <<<<"Aurine_emp">>, <<"empagliflozin", "_", "urine">>>> >>

Heise2013a_info ==
    << <<<<"[Cve_emp]">>, <<"empagliflozin">>>>,
       <<<<"KI", "__", "UGE">>, <<"uge">>>> >>

Macha2014b_info ==
    << <<<<"[Cve_emp]">>, <<"empagliflozin">>>>,
       <<<<"Aurine_emp">>, <<"empagliflozin", "_", "urine">>>>,
       <<<<"KI", "__", "UGE">>, <<"uge">>>>,
       <<<<"Aurine_eg">>, <<"eg", "_", "urine">>>>,
       <<<<"Aurine_emptot">>, <<"emptot", "_", "urine">>>> >>

\* the interventions, groups or doses a study loops over
Zhao2015_interventions == << <<"MULTI10">>, <<"MULTI25">> >>
Brand2012_interventions == << <<"EMP50", "_", "D5">>, <<"EMP50", "_", "D10">> >>
Friedrich2013_interventions == << <<"EMP50", "_", "D5">>, <<"EMP50", "_", "D7">> >>
Chen2015a_interventions == << <<"po", "_", "C14EMP">> >>
Heise2013a_interventions ==
    << <<"Placebo">>, <<"EMP10">>, <<"EMP25">>, <<"EMP100">> >>
Sarashina2013_interventions ==
    << <<"placebo">>, <<"EMP1">>, <<"EMP5">>, <<"EMP10">>, <<"EMP25">>,
       <<"EMP100">> >>
Seman2013_interventions ==
    << <<"placebo">>, <<"EMP0.5">>, <<"EMP2.5">>, <<"EMP10">>, <<"EMP25">>,
       <<"EMP50">>, <<"EMP100">>, <<"EMP200">>, <<"EMP400">>, <<"EMP800">> >>
Macha2014f_groups == << <<"normal">>, <<"mild">>, <<"moderate">>, <<"severe">> >>

\* tissue=Tissue.URINE if "urine" in intervention else Tissue.PLASMA
Zhao2015_tissue(name, intervention) ==
    IF In("urine", intervention) THEN "URINE" ELSE "PLASMA"

\* tissue=Tissue.URINE if "urine" in name else Tissue.PLASMA
Brand2012_tissue(name, intervention) ==
    IF In("urine", name) THEN "URINE" ELSE "PLASMA"

\* the if / elif chain of Chen2015a.fit_mappings
Chen2015a_tissue(name, intervention) ==
    IF endswith(name, "plasma") THEN "PLASMA"
    ELSE IF endswith(name, "urine") THEN "URINE"
    ELSE "FECES"

\* tissue=Tissue.URINE if name == "uge" else Tissue.PLASMA
Heise2013a_tissue(name, intervention) ==
    IF name = <<"uge">> THEN "URINE" ELSE "PLASMA"

\* tissue=Tissue.PLASMA if name == "empagliflozin" else Tissue.URINE
Macha2014f_tissue(name, intervention) ==
    IF name = <<"empagliflozin">> THEN "PLASMA" ELSE "URINE"

\* per study: info, the second loop variable's values, and whether the loop
\* over info is the outer one
TagStudies ==
    [Zhao2015 |-> [info |-> Zhao2015_info, inner |-> Zhao2015_interventions,
                   info_outer |-> FALSE],
     Brand2012 |-> [info |-> Zhao2015_info, inner |-> Brand2012_interventions,
                    info_outer |-> TRUE],
     Friedrich2013 |-> [info |-> Zhao2015_info,
                        inner |-> Friedrich2013_interventions,
                        info_outer |-> TRUE],
     Chen2015a |-> [info |-> Chen2015a_info, inner |-> Chen2015a_interventions,
                    info_outer |-> TRUE],
     Heise2013a |-> [info |-> Heise2013a_info,
                     inner |-> Heise2013a_interventions, info_outer |-> FALSE],
     Sarashina2013 |-> [info |-> Macha2014f_info,
                        inner |-> Sarashina2013_interventions,
                        info_outer |-> TRUE],
     Seman2013 |-> [info |-> Macha2014f_info,
                    inner |-> Seman2013_interventions, info_outer |-> TRUE],
     Macha2014b |-> [info |-> Macha2014b_info, inner |-> Macha2014f_groups,
                     info_outer |-> TRUE],
     Macha2014f |-> [info |-> Macha2014f_info, inner |-> Macha2014f_groups,
                     info_outer |-> TRUE]]

tissue(study, name, intervention) ==
    CASE study = "Zhao2015" -> Zhao2015_tissue(name, intervention)
      [] study \in {"Brand2012", "Friedrich2013"} ->
            Brand2012_tissue(name, intervention)
      [] study = "Chen2015a" -> Chen2015a_tissue(name, intervention)
      [] study = "Heise2013a" -> Heise2013a_tissue(name, intervention)
      [] OTHER -> Macha2014f_tissue(name, intervention)

\* the iterations of the two nested loops, in the order of the code
Iterations(study) ==
    LET s == TagStudies[study]
        n == Len(s.info)
        m == Len(s.inner)
    IN  [k \in 1 .. n * m |->
           LET i == IF s.info_outer THEN ((k - 1) \div m) + 1 ELSE ((k - 1) % n) + 1
               j == IF s.info_outer THEN ((k - 1) % m) + 1 ELSE ((k - 1) \div n) + 1
           IN  [sid |-> s.info[i][1], name |-> s.info[i][2],
                intervention |-> s.inner[j]]]

\* mappings[f"fm_{name}_{intervention}"] = FitMapping(..., observable=
\* FitData(self, task=f"task_{intervention}", yid=sid), metadata=...)
TagMapping ==
    /\ tag_pc = "loop"
    /\ tag_todo # <<>>
    /\ LET it == Head(tag_todo)
       IN  tag_mappings' = tag_mappings \cup
             {[key |-> <<it.name, it.intervention>>, yid |-> it.sid,
               tissue |-> tissue(tag_study, it.name, it.intervention)]}
    /\ tag_todo' = Tail(tag_todo)
    /\ UNCHANGED <<tag_study, tag_pc>>

\* return mappings
TagReturn ==
    /\ tag_pc = "loop"
    /\ tag_todo = <<>>
    /\ tag_pc' = "done"
    /\ UNCHANGED <<tag_study, tag_todo, tag_mappings>>

TagStart ==
    /\ tag_study \in DOMAIN TagStudies
    /\ tag_todo = Iterations(tag_study)
    /\ tag_mappings = {}
    /\ tag_pc = "loop"

TagStep ==
    \/ TagMapping
    \/ TagReturn

TagIdle ==
    /\ tag_study = "none"
    /\ tag_todo = <<>>
    /\ tag_mappings = {}
    /\ tag_pc = "idle"

(***************************************************************************)
(* Tasks and the references to them (experiments/base_experiment.py,       *)
(* experiments/studies, experiments/misc). A key is a sequence of tokens,  *)
(* "_" a token of its own; a number is the token of its str().             *)
(***************************************************************************)
RECURSIVE Concat(_)
\* the sequences of a sequence, one after the other
Concat(ss) == IF ss = <<>> THEN <<>> ELSE Head(ss) \o Concat(Tail(ss))

\* EmpagliflozinSimulationExperiment.models(): the keys of the dict
models == {"model"}

\* f"task_{key}"
task_name(key) == <<"task", "_">> \o key

\* Task(model="model", simulation=key)
Task(model_key, simulation) == [model |-> model_key, simulation |-> simulation]

\* ---- Brand2012 ----
\* tcsims[f"po_{intervention}"], in both branches of the loop
Brand2012_simulation_keys ==
    [i \in 1 .. Len(Brand2012_interventions) |->
        <<"po", "_">> \o Brand2012_interventions[i]]

\* a reference without the prefix of the simulation keys
Brand2012_mapping_task_unprefixed(intervention) ==
    <<"task", "_">> \o intervention

\* observable=FitData(self, task=f"task_po_{intervention}", ...)
Brand2012_mapping_task(intervention) ==
    <<"task", "_", "po", "_">> \o intervention

\* for sid, name in self.info.items(): for intervention in self.interventions
Brand2012_mapping_tasks ==
    Concat([s \in 1 .. Len(Zhao2015_info) |->
              [i \in 1 .. Len(Brand2012_interventions) |->
                  Brand2012_mapping_task(Brand2012_interventions[i])]])

\* plots[kp].add_data(task="task_po_EMP50_D5", ...) for every sid of info
Brand2012_figure_tasks ==
    [s \in 1 .. Len(Zhao2015_info) |->
        <<"task", "_", "po", "_", "EMP50", "_", "D5">>]

\* ---- Zhao2015 ----
\* tcsims[f"{intervention}"]
Zhao2015_simulation_keys == Zhao2015_interventions

\* for intervention in self.interventions: for k, sid in enumerate(self.info):
\* task=f"task_{intervention}"; the figure loops in the same way
Zhao2015_mapping_tasks ==
    Concat([i \in 1 .. Len(Zhao2015_interventions) |->
              [s \in 1 .. Len(Zhao2015_info) |->
                  <<"task", "_">> \o Zhao2015_interventions[i]]])

\* ---- DoseDependencyExperiment ----
DoseDependency_doses == <<"0", "2.5", "5", "10", "50", "100", "200", "800">>
DoseDependency_glucoses == <<"5", "6", "7", "8", "9", "10", "11">>

\* tcsims[f"emp_dose_{dose}"] and then tcsims[f"emp_glucose_{glc}"]
DoseDependency_simulation_keys ==
    [i \in 1 .. Len(DoseDependency_doses) |->
        <<"emp", "_", "dose", "_", DoseDependency_doses[i]>>]
    \o [i \in 1 .. Len(DoseDependency_glucoses) |->
        <<"emp", "_", "glucose", "_", DoseDependency_glucoses[i]>>]

\* values = self.doses if key == "dose" else self.glucoses
DoseDependency_values(key) ==
    IF key = "dose" THEN DoseDependency_doses ELSE DoseDependency_glucoses

\* task=f"task_emp_{key}_{value}"
DoseDependency_task(key, value) == <<"task", "_", "emp", "_", key, "_", value>>

\* the number of panels of figure_pk: the nine sids
DoseDependency_pk_sids == 9

\* the time course panels of figure_pd: KI__UGE, KI__RTG, [KI__fpg]
DoseDependency_pd_sids == 3

\* figure_pk: for key: for sid in sids: for value in values: add_data
DoseDependency_figure_pk ==
    Concat([k \in 1 .. 2 |->
      LET key == <<"dose", "glucose">>[k]
          values == DoseDependency_values(key)
      IN  Concat([s \in 1 .. DoseDependency_pk_sids |->
                    [v \in 1 .. Len(values) |->
                        DoseDependency_task(key, values[v])]])])

\* figure_pd: for key: the time courses, then three panels per value
DoseDependency_figure_pd ==
    Concat([k \in 1 .. 2 |->
      LET key == <<"dose", "glucose">>[k]
          values == DoseDependency_values(key)
      IN  Concat([s \in 1 .. DoseDependency_pd_sids |->
                    [v \in 1 .. Len(values) |->
                        DoseDependency_task(key, values[v])]])
          \o Concat([v \in 1 .. Len(values) |->
                    [p \in 1 .. 3 |-> DoseDependency_task(key, values[v])]])])

\* per experiment: the keys of simulations(), and the tasks that
\* fit_mappings() and figures() refer to, in the order of the code
TaskExperiments ==
    [Brand2012 |-> [simulations |-> Brand2012_simulation_keys,
                    fit_mappings |-> Brand2012_mapping_tasks,
                    figures |-> Brand2012_figure_tasks],
     Zhao2015 |-> [simulations |-> Zhao2015_simulation_keys,
                   fit_mappings |-> Zhao2015_mapping_tasks,
                   figures |-> Zhao2015_mapping_tasks],
     DoseDependencyExperiment |->
                  [simulations |-> DoseDependency_simulation_keys,
                   fit_mappings |-> <<>>,
                   figures |-> DoseDependency_figure_pk
                               \o DoseDependency_figure_pd]]

\* tasks(): one entry of the dict comprehension,
\* f"task_{key}": Task(model="model", simulation=key)
TaskCreate ==
    /\ tk_pc = "tasks"
    /\ tk_i < Len(TaskExperiments[tk_exp].simulations)
    /\ LET key == TaskExperiments[tk_exp].simulations[tk_i + 1]
       IN  tk_tasks' = [name \in DOMAIN tk_tasks \cup {task_name(key)} |->
                          IF name = task_name(key) THEN Task("model", key)
                          ELSE tk_tasks[name]]
    /\ tk_i' = tk_i + 1
    /\ UNCHANGED <<tk_exp, tk_pc, tk_refs>>

\* one FitMapping with observable=FitData(self, task=..., ...)
TaskMappingRef ==
    /\ tk_pc = "fit_mappings"
    /\ tk_i < Len(TaskExperiments[tk_exp].fit_mappings)
    /\ tk_refs' = tk_refs \cup {TaskExperiments[tk_exp].fit_mappings[tk_i + 1]}
    /\ tk_i' = tk_i + 1
    /\ UNCHANGED <<tk_exp, tk_pc, tk_tasks>>

\* one add_data(task=..., ...) of a figure
TaskFigureRef ==
    /\ tk_pc = "figures"
    /\ tk_i < Len(TaskExperiments[tk_exp].figures)
    /\ tk_refs' = tk_refs \cup {TaskExperiments[tk_exp].figures[tk_i + 1]}
    /\ tk_i' = tk_i + 1
    /\ UNCHANGED <<tk_exp, tk_pc, tk_tasks>>

\* the method returns and the next one is called
TaskReturn ==
    /\ tk_pc \in {"tasks", "fit_mappings", "figures"}
    /\ tk_i = Len(IF tk_pc = "tasks" THEN TaskExperiments[tk_exp].simulations
                   ELSE TaskExperiments[tk_exp][tk_pc])
    /\ tk_pc' = CASE tk_pc = "tasks" -> "fit_mappings"
                  [] tk_pc = "fit_mappings" -> "figures"
                  [] OTHER -> "done"
    /\ tk_i' = 0
    /\ UNCHANGED <<tk_exp, tk_tasks, tk_refs>>

TaskStart ==
    /\ tk_exp \in DOMAIN TaskExperiments
    /\ tk_pc = "tasks"
    /\ tk_i = 0
    /\ tk_tasks = <<>>
    /\ tk_refs = {}

TaskStep ==
    \/ TaskCreate
    \/ TaskMappingRef
    \/ TaskFigureRef
    \/ TaskReturn

TaskIdle ==
    /\ tk_exp = "none"
    /\ tk_pc = "idle"
    /\ tk_i = 0
    /\ tk_tasks = <<>>
    /\ tk_refs = {}

(***************************************************************************)
(* Dosing regimens (experiments/base_experiment.py, experiments/studies).  *)
(* Values are scaled integers: BW in 0.1 kg, [KI__fpg] and                 *)
(* KI__f_renal_function in 0.01, PODOSE_emp in mg, amounts in quanta.      *)
(***************************************************************************)
\* EmpagliflozinSimulationExperiment.fpg_healthy = 6.5 mM
experiment_fpg_healthy == 650

\* EmpagliflozinSimulationExperiment._default_changes
default_changes ==
    [ftissue_emp |-> "0.3832934310804301",
     Kp_emp |-> "0.573747586082099",
     GU__EMPABS_k |-> "0.007439770316739214",
     GU__METEXC_k |-> "0.0008998014627372138",
     LI__EMP2EG_Vmax |-> "0.012490394598835162",
     LI__EMP2EG_Km_emp |-> "0.24667266695912698",
     LI__EGEX_k |-> "0.014033858848302178",
     LI__EGBIEX_k |-> "0.00735528424770721",
     KI__EMPEX_k |-> "0.11795401426241267",
     KI__EGEX_k |-> "1.4994487519741735",
     KI__RTG_E50 |-> "1.7063026384665662e-06",
     KI__RTG_base |-> "12.397702595815295",
     KI__RTG_max_inhibition |-> "0.6842787312726607",
     KI__RTG_m_fpg |-> "0.8981650940449492"]

\* {**a, **b}: the later entries win
Merge(a, b) == b @@ a

Timecourse(end, steps, changes) == [end |-> end, steps |-> steps, changes |-> changes]

TimecourseSim(timecourses, time_offset) ==
    [timecourses |-> timecourses, time_offset |-> time_offset]

\* [tc for _ in range(n)]
Repeat(tc, n) == [i \in 1 .. n |-> tc]

\* ---- Brand2012 ----
\* the entries of tc0's changes after **self.default_changes()
Brand2012_tc0_changes ==
    [BW |-> 780, KI__fpg |-> experiment_fpg_healthy, PODOSE_emp |-> 50]

Brand2012_tc0 ==
    Timecourse(24 * 60, 500, Merge(default_changes, Brand2012_tc0_changes))

\* the repeated segment without the reset of the urinary amount
Brand2012_tc1NoReset == Timecourse(24 * 60, 500, [PODOSE_emp |-> 50])

Brand2012_tc1 == Timecourse(24 * 60, 500, [PODOSE_emp |-> 50, Aurine_emp |-> 0])

Brand2012_tc2 == Timecourse(25 * 60, 500, [PODOSE_emp |-> 50, Aurine_emp |-> 0])

\* the offset of the 5-day regimen, also given to the 10-day regimen
Brand2012_simulationsD5Offset ==
    [po_EMP50_D5 |->
        TimecourseSim(<<Brand2012_tc0>> \o Repeat(Brand2012_tc1, 3) \o <<Brand2012_tc2>>,
                      -4 * 24 * 60),
     po_EMP50_D10 |->
        TimecourseSim(<<Brand2012_tc0>> \o Repeat(Brand2012_tc1, 8) \o <<Brand2012_tc2>>,
                      -4 * 24 * 60)]

Brand2012_simulations ==
    [po_EMP50_D5 |->
        TimecourseSim(<<Brand2012_tc0>> \o Repeat(Brand2012_tc1, 3) \o <<Brand2012_tc2>>,
                      -4 * 24 * 60),
     po_EMP50_D10 |->
        TimecourseSim(<<Brand2012_tc0>> \o Repeat(Brand2012_tc1, 8) \o <<Brand2012_tc2>>,
                      -9 * 24 * 60)]

\* ---- Friedrich2013 ----
Friedrich2013_tc0 ==
    Timecourse(24 * 60, 500,
        Merge(default_changes,
              [BW |-> 815, KI__fpg |-> experiment_fpg_healthy, PODOSE_emp |-> 50]))

Friedrich2013_tc1 == Timecourse(24 * 60, 500, [PODOSE_emp |-> 50, Aurine_emp |-> 0])

Friedrich2013_tc2 == Timecourse(25 * 60, 500, [PODOSE_emp |-> 50, Aurine_emp |-> 0])

Friedrich2013_simulations ==
    [po_EMP50_D5 |->
        TimecourseSim(<<Friedrich2013_tc0>> \o Repeat(Friedrich2013_tc1, 3)
                        \o <<Friedrich2013_tc2>>,
                      -4 * 24 * 60),
     po_EMP50_D7 |->
        TimecourseSim(<<Friedrich2013_tc0>> \o Repeat(Friedrich2013_tc1, 5)
                        \o <<Friedrich2013_tc2>>,
                      -6 * 24 * 60)]

\* ---- Heise2013a ----
Heise2013a_fpgs == [Placebo |-> 845, EMP10 |-> 916, EMP25 |-> 924, EMP100 |-> 830]
Heise2013a_bodyweights == [Placebo |-> 893, EMP10 |-> 896, EMP25 |-> 896, EMP100 |-> 924]
Heise2013a_doses == [Placebo |-> 0, EMP10 |-> 10, EMP25 |-> 25, EMP100 |-> 100]

Heise2013a_tc0(intervention) ==
    Timecourse(24 * 60, 500,
        Merge(default_changes,
              [BW |-> Heise2013a_bodyweights[intervention],
               KI__fpg |-> Heise2013a_fpgs[intervention],
               PODOSE_emp |-> Heise2013a_doses[intervention],
               KI__glc_urine |-> 0]))

Heise2013a_tc1(intervention) ==
    Timecourse(24 * 60, 500,
        [PODOSE_emp |-> Heise2013a_doses[intervention], KI__glc_urine |-> 0])

Heise2013a_tc2(intervention) ==
    Timecourse(100 * 60, 500,
        [PODOSE_emp |-> Heise2013a_doses[intervention], KI__glc_urine |-> 0])

\* TimecourseSim without time_offset: the offset is 0
Heise2013a_simulations ==
    [intervention \in DOMAIN Heise2013a_doses |->
        TimecourseSim(<<Heise2013a_tc0(intervention)>>
                        \o Repeat(Heise2013a_tc1(intervention), 26)
                        \o <<Heise2013a_tc2(intervention)>>,
                      0)]

\* ---- Zhao2015 ----
Zhao2015_bodyweights == [MULTI10 |-> 740, MULTI25 |-> 670]
\* 166.67/180 and 160.56/180 mM
Zhao2015_fpgs == [MULTI10 |-> 93, MULTI25 |-> 89]
Zhao2015_doses == [MULTI10 |-> 10, MULTI25 |-> 25]

Zhao2015_tc0(intervention) ==
    Timecourse(48 * 60, 500,
        Merge(default_changes,
              [BW |-> Zhao2015_bodyweights[intervention],
               KI__fpg |-> Zhao2015_fpgs[intervention],
               PODOSE_emp |-> Zhao2015_doses[intervention],
               Aurine_emp |-> 0]))

Zhao2015_tc1(intervention) ==
    Timecourse(24 * 60, 500,
        [PODOSE_emp |-> Zhao2015_doses[intervention], Aurine_emp |-> 0])

Zhao2015_tc2(intervention) ==
    Timecourse(75 * 60, 500,
        [PODOSE_emp |-> Zhao2015_doses[intervention], Aurine_emp |-> 0])

\* the time_offset argument is commented out: the offset is 0
Zhao2015_simulations ==
    [intervention \in DOMAIN Zhao2015_doses |->
        TimecourseSim(<<Zhao2015_tc0(intervention)>>
                        \o Repeat(Zhao2015_tc1(intervention), 6)
                        \o <<Zhao2015_tc2(intervention)>>,
                      0)]

\* ---- Kim2021 ----
Kim2021_tc0 ==
    Timecourse(24 * 60, 500,
        Merge(default_changes,
              [BW |-> 731, KI__fpg |-> experiment_fpg_healthy,
               KI__f_renal_function |-> 100, PODOSE_emp |-> 25]))

Kim2021_tc1 == Timecourse(24 * 60, 500, [PODOSE_emp |-> 25])

Kim2021_tc2 == Timecourse(30 * 60, 500, [PODOSE_emp |-> 25])

Kim2021_simulations ==
    [intervention \in {"po_emp25_E", "po_emp25_E, L"} |->
        TimecourseSim(<<Kim2021_tc0>> \o Repeat(Kim2021_tc1, 3) \o <<Kim2021_tc2>>,
                      -4 * 24 * 60)]

\* ---- Kim2023 ----
\* the entries of tc0's changes after **self.default_changes()
Kim2023_tc0_changes == [PODOSE_emp |-> 25]

Kim2023_tc0 == Timecourse(24 * 60, 500, Merge(default_changes, Kim2023_tc0_changes))

Kim2023_tc1 == Timecourse(24 * 60, 500, [PODOSE_emp |-> 25])

Kim2023_tc2 == Timecourse(25 * 60, 500, [PODOSE_emp |-> 25])

Kim2023_simulations ==
    [po_emp25 |->
        TimecourseSim(<<Kim2023_tc0>> \o Repeat(Kim2023_tc1, 3) \o <<Kim2023_tc2>>,
                      -4 * 24 * 60)]

\* ---- Macha2013e ----
Macha2013e_tc0 ==
    Timecourse(24 * 60, 500,
        Merge(default_changes,
              [KI__fpg |-> experiment_fpg_healthy, KI__f_renal_function |-> 100,
               PODOSE_emp |-> 25]))

Macha2013e_tc1 == Timecourse(24 * 60, 500, [PODOSE_emp |-> 25])

Macha2013e_tc2 == Timecourse(170 * 60, 2000, [PODOSE_emp |-> 25])

Macha2013e_n_repeats(intervention) == IF intervention = "emp" THEN 3 ELSE 5

Macha2013e_simulations ==
    [key \in {"po_emp25_emp", "po_emp25_emp, war"} |->
        LET n_repeats == Macha2013e_n_repeats(IF key = "po_emp25_emp" THEN "emp"
                                              ELSE "emp, war")
        IN  TimecourseSim(<<Macha2013e_tc0>> \o Repeat(Macha2013e_tc1, n_repeats)
                            \o <<Macha2013e_tc2>>,
                          -(n_repeats + 1) * 24 * 60)]

\* ---- Macha2015b ----
Macha2015b_tc0 ==
    Timecourse(24 * 60, 500,
        Merge(default_changes,
              [KI__fpg |-> experiment_fpg_healthy, KI__f_renal_function |-> 100,
               PODOSE_emp |-> 50]))

Macha2015b_tc1 == Timecourse(24 * 60, 500, [PODOSE_emp |-> 50])

Macha2015b_tc2 == Timecourse(30 * 60, 500, [PODOSE_emp |-> 50])

Macha2015b_simulations ==
    [key \in {"po_emp50_emp50", "po_emp50_emp50, piog45"} |->
        TimecourseSim(<<Macha2015b_tc0>> \o Repeat(Macha2015b_tc1, 3)
                        \o <<Macha2015b_tc2>>,
                      -4 * 24 * 60)]

\* ---- vanderAartvanderBeek2020 ----
vanderAartvanderBeek2020_tc0 ==
    Timecourse(24 * 60, 500,
        Merge(default_changes, [KI__fpg |-> 1000, PODOSE_emp |-> 10]))

vanderAartvanderBeek2020_tc1 == Timecourse(24 * 60, 500, [PODOSE_emp |-> 10])

\* the regimen with a final segment of 30 h after the repeated ones
vanderAartvanderBeek2020_simulations_final ==
    [po_emp10 |->
        TimecourseSim(<<vanderAartvanderBeek2020_tc0>>
                        \o Repeat(vanderAartvanderBeek2020_tc1, 8)
                        \o <<Timecourse(30 * 60, 500, [PODOSE_emp |-> 10])>>,
                      -9 * 24 * 60)]

vanderAartvanderBeek2020_simulations ==
    [po_emp10 |->
        TimecourseSim(<<vanderAartvanderBeek2020_tc0>>
                        \o Repeat(vanderAartvanderBeek2020_tc1, 9),
                      -9 * 24 * 60)]

\* the simulations of the studies with a multi-dose regimen
Simulations ==
    [Brand2012 |-> Brand2012_simulations,
     Friedrich2013 |-> Friedrich2013_simulations,
     Heise2013a |-> Heise2013a_simulations,
     Zhao2015 |-> Zhao2015_simulations,
     Kim2021 |-> Kim2021_simulations,
     Kim2023 |-> Kim2023_simulations,
     Macha2013e |-> Macha2013e_simulations,
     Macha2015b |-> Macha2015b_simulations,
     vanderAartvanderBeek2020 |-> vanderAartvanderBeek2020_simulations]

SimulationKeys ==
    UNION {{<<study, key>> : key \in DOMAIN Simulations[study]} :
            study \in DOMAIN Simulations}

\* the cumulative excretion species behind the observables of a study (info)
Tracked(study) ==
    IF study \in {"Brand2012", "Friedrich2013", "Zhao2015"} THEN {"Aurine_emp"}
    ELSE IF study = "Heise2013a" THEN {"KI__glc_urine"}
    ELSE {}

CumulativeSpecies == {"Aurine_emp", "KI__glc_urine"}

\* the model file's own values of the symbols the regimens change
ModelDefaults ==
    Merge([key \in DOMAIN default_changes |-> "model"],
          [BW |-> 750, KI__fpg |-> 500, KI__f_renal_function |-> 100,
           PODOSE_emp |-> 0, Aurine_emp |-> 0, KI__glc_urine |-> 0])

\* boundaryCondition=True: reactions leave the species alone
RunBoundaryNone == {}

RunBoundary == {"KI__fpg"}

Timecourses == Simulations[sim[1]][sim[2]].timecourses

\* the changes of a segment added to the running values
ApplyChanges_added(m, changes) ==
    [key \in DOMAIN m |->
        IF key \in DOMAIN changes THEN m[key] + changes[key] ELSE m[key]]

\* the changes of a segment are set on the running model; all else stays
ApplyChanges(m, changes) ==
    [key \in DOMAIN m |-> IF key \in DOMAIN changes THEN changes[key] ELSE m[key]]

NoneExcreted == [sp \in CumulativeSpecies |-> 0]

\* the next timecourse of the regimen starts: its changes are applied
StartSegment ==
    /\ phase \in {"idle", "start", "run"}
    /\ seg < Len(Timecourses)
    /\ seg' = seg + 1
    /\ model' = ApplyChanges(model, Timecourses[seg + 1].changes)
    /\ time' = IF seg = 0 THEN 0 ELSE time + Timecourses[seg].end
    /\ phase' = "start"
    /\ excreted' = NoneExcreted
    /\ earlier' = [sp \in CumulativeSpecies |-> earlier[sp] \/ excreted[sp] > 0]
    /\ UNCHANGED <<sim, drug>>

\* RateRule PODOSE_emp: the remaining dose dissolves, by half or to the end
RunDissolution ==
    /\ phase \in {"start", "run"}
    /\ model.PODOSE_emp > 0
    /\ \E rest \in {model.PODOSE_emp \div 2, 0} :
          model' = [model EXCEPT !.PODOSE_emp = rest]
    /\ drug' = TRUE
    /\ phase' = "run"
    /\ UNCHANGED <<sim, seg, time, excreted, earlier>>

\* Reaction EMPEX: empagliflozin passes into urine
RunEMPEX ==
    /\ phase \in {"start", "run"}
    /\ drug
    /\ model.Aurine_emp < MaxCum
    /\ model' = [model EXCEPT !.Aurine_emp = @ + 1]
    /\ excreted' = [excreted EXCEPT !.Aurine_emp = @ + 1]
    /\ phase' = "run"
    /\ UNCHANGED <<sim, seg, time, drug, earlier>>

\* Reaction GLCEX: fpg -> glc_urine [emp_ext]
RunGLCEX ==
    /\ phase \in {"start", "run"}
    /\ drug
    /\ model.KI__glc_urine < MaxCum
    /\ model.KI__fpg > 0
    /\ model' =
        [model EXCEPT !.KI__glc_urine = @ + 1,
                      !.KI__fpg = IF "KI__fpg" \in RunBoundary THEN @ ELSE @ - 1]
    /\ excreted' = [excreted EXCEPT !.KI__glc_urine = @ + 1]
    /\ phase' = "run"
    /\ UNCHANGED <<sim, seg, time, drug, earlier>>

\* the last timecourse ends
Finish ==
    /\ phase \in {"start", "run"}
    /\ seg = Len(Timecourses)
    /\ phase' = "done"
    /\ UNCHANGED <<sim, seg, model, time, drug, excreted, earlier>>

\* summed duration of the first n timecourses
RECURSIVE SumEnd(_, _)
SumEnd(tcs, n) == IF n = 0 THEN 0 ELSE SumEnd(tcs, n - 1) + tcs[n].end

\* reported time: simulated time shifted by the time_offset of the simulation
ReportedTime == time + Simulations[sim[1]][sim[2]].time_offset

SeqStart ==
    /\ sim \in SimulationKeys
    /\ seg = 0
    /\ phase = "idle"
    /\ model = ModelDefaults
    /\ time = 0
    /\ drug = FALSE
    /\ excreted = NoneExcreted
    /\ earlier = [sp \in CumulativeSpecies |-> FALSE]

SeqStep ==
    \/ StartSegment
    \/ RunDissolution
    \/ RunEMPEX
    \/ RunGLCEX
    \/ Finish

\* no simulation is run
SeqIdle ==
    /\ sim = <<"none", "none">>
    /\ seg = 0
    /\ phase = "idle"
    /\ model = ModelDefaults
    /\ time = 0
    /\ drug = FALSE
    /\ excreted = NoneExcreted
    /\ earlier = [sp \in CumulativeSpecies |-> FALSE]

(***************************************************************************)
(* The oral dose over a regimen (model_intestine.py, experiments/studies): *)
(* PODOSE_emp in mg, the amount that entered emp_lumen in mmole.           *)
(***************************************************************************)
DoseTimecourses == Simulations[dp_sim[1]][dp_sim[2]].timecourses

\* the timecourse sets PODOSE_emp
Dosing_segment(tc) == "PODOSE_emp" \in DOMAIN tc.changes

\* the amount without the division by the molar mass
lumen_inflow_undivided(decrease) == R(decrease)

\* Reaction dissolution_emp = Ka_dis_emp/60 * PODOSE_emp/Mr_emp and
\* RateRule PODOSE_emp = -dissolution_emp * Mr_emp: what enters emp_lumen
\* while PODOSE_emp falls by decrease
lumen_inflow(decrease) == RDiv(R(decrease), R(Mr_emp))

\* the next timecourse starts: its changes are applied
DoseStartSegment ==
    /\ dp_phase \in {"idle", "start", "run"}
    /\ dp_seg < Len(DoseTimecourses)
    /\ dp_seg' = dp_seg + 1
    /\ LET tc == DoseTimecourses[dp_seg + 1]
           m == ApplyChanges([PODOSE_emp |-> dp_PODOSE], tc.changes)
       IN  /\ dp_PODOSE' = m.PODOSE_emp
           /\ dp_doses' = IF Dosing_segment(tc) THEN dp_doses + 1 ELSE dp_doses
           /\ dp_last' = [before |-> m.PODOSE_emp, after |-> m.PODOSE_emp]
    /\ dp_phase' = "start"
    /\ UNCHANGED <<dp_sim, dp_dissolved, dp_entered>>

\* the remaining dose dissolves, by half or to the end
DoseDissolution ==
    /\ dp_phase \in {"start", "run"}
    /\ dp_PODOSE > 0
    /\ \E rest \in {dp_PODOSE \div 2, 0} :
          /\ dp_PODOSE' = rest
          /\ dp_dissolved' = dp_dissolved + (dp_PODOSE - rest)
          /\ dp_entered' = RAdd(dp_entered, lumen_inflow(dp_PODOSE - rest))
          /\ dp_last' = [before |-> dp_PODOSE, after |-> rest]
    /\ dp_phase' = "run"
    /\ UNCHANGED <<dp_sim, dp_seg, dp_doses>>

\* the last timecourse ends
DoseFinish ==
    /\ dp_phase \in {"start", "run"}
    /\ dp_seg = Len(DoseTimecourses)
    /\ dp_phase' = "done"
    /\ UNCHANGED <<dp_sim, dp_seg, dp_PODOSE, dp_dissolved, dp_entered, dp_doses, dp_last>>

DoseStart ==
    /\ dp_sim \in SimulationKeys
    /\ dp_seg = 0
    /\ dp_phase = "idle"
    /\ dp_PODOSE = ModelDefaults.PODOSE_emp
    /\ dp_dissolved = 0
    /\ dp_entered = R(0)
    /\ dp_doses = 0
    /\ dp_last = [before |-> 0, after |-> 0]

DoseStep ==
    \/ DoseStartSegment
    \/ DoseDissolution
    \/ DoseFinish

DoseIdle ==
    /\ dp_sim = <<"none", "none">>
    /\ dp_seg = 0
    /\ dp_phase = "idle"
    /\ dp_PODOSE = 0
    /\ dp_dissolved = 0
    /\ dp_entered = R(0)
    /\ dp_doses = 0
    /\ dp_last = [before |-> 0, after |-> 0]

(***************************************************************************)
(* Objects and their identities: the maps, Timecourses and lists that the  *)
(* simulations() of Brand2012 and Kim2023 build, and the runs over them.   *)
(***************************************************************************)
Dict(map) == [kind |-> "dict", map |-> map]

TimecourseObject(tc, changes_id) ==
    [kind |-> "Timecourse", end |-> tc.end, steps |-> tc.steps, changes |-> changes_id]

List(items) == [kind |-> "list", items |-> items]

\* a new object gets the next identity
Alloc(h, obj) == Append(h, obj)

\* the object of an identity becomes obj
Put(h, id, obj) == IF id = Len(h) + 1 THEN Append(h, obj) ELSE [h EXCEPT ![id] = obj]

\* one map, made once and returned by every call
default_changes_cached(h) == 1

\* default_changes(): the dict literal of _default_changes makes a new map
default_changes_call(h) == Len(h) + 1

\* Brand2012.simulations(): tc0, tc1 and tc2 are made once and shared by the
\* lists of both simulations; tc1 is repeated inside each list
Brand2012_build(h) ==
    LET d   == default_changes_call(h)
        h1  == Put(h, d, Dict(default_changes))
        h2  == Alloc(h1, Dict(Merge(h1[d].map, Brand2012_tc0_changes)))
        tc0 == Len(h2) + 1
        h3  == Alloc(h2, TimecourseObject(Brand2012_tc0, Len(h2)))
        h4  == Alloc(h3, Dict(Brand2012_tc1.changes))
        tc1 == Len(h4) + 1
        h5  == Alloc(h4, TimecourseObject(Brand2012_tc1, Len(h4)))
        h6  == Alloc(h5, Dict(Brand2012_tc2.changes))
        tc2 == Len(h6) + 1
        h7  == Alloc(h6, TimecourseObject(Brand2012_tc2, Len(h6)))
        h8  == Alloc(h7, List(<<tc0>> \o Repeat(tc1, 3) \o <<tc2>>))
        h9  == Alloc(h8, List(<<tc0>> \o Repeat(tc1, 8) \o <<tc2>>))
    IN  [heap |-> h9,
         returned |-> d,
         tcsims |->
            [po_EMP50_D5 |-> TimecourseSim(Len(h8), -4 * 24 * 60),
             po_EMP50_D10 |-> TimecourseSim(Len(h9), -9 * 24 * 60)]]

\* Kim2023.simulations()
Kim2023_build(h) ==
    LET d   == default_changes_call(h)
        h1  == Put(h, d, Dict(default_changes))
        h2  == Alloc(h1, Dict(Merge(h1[d].map, Kim2023_tc0_changes)))
        tc0 == Len(h2) + 1
        h3  == Alloc(h2, TimecourseObject(Kim2023_tc0, Len(h2)))
        h4  == Alloc(h3, Dict(Kim2023_tc1.changes))
        tc1 == Len(h4) + 1
        h5  == Alloc(h4, TimecourseObject(Kim2023_tc1, Len(h4)))
        h6  == Alloc(h5, Dict(Kim2023_tc2.changes))
        tc2 == Len(h6) + 1
        h7  == Alloc(h6, TimecourseObject(Kim2023_tc2, Len(h6)))
        h8  == Alloc(h7, List(<<tc0>> \o Repeat(tc1, 3) \o <<tc2>>))
    IN  [heap |-> h8,
         returned |-> d,
         tcsims |-> [po_emp25 |-> TimecourseSim(Len(h8), -4 * 24 * 60)]]

Experiments == {"Brand2012", "Kim2023"}

build(study, h) == IF study = "Brand2012" THEN Brand2012_build(h) ELSE Kim2023_build(h)

\* the simulations of the experiments that were built
BuiltSimulations ==
    UNION {{<<study, key>> : key \in DOMAIN tcsims[study]} : study \in Experiments}

\* the timecourses of a simulation as the objects hold them
View(h, s) ==
    LET items == h[tcsims[s[1]][s[2]].timecourses].items
    IN  [i \in DOMAIN items |->
            Timecourse(h[items[i]].end, h[items[i]].steps, h[h[items[i]].changes].map)]

\* the model of a run at the start of its n-th timecourse
RECURSIVE ModelAt(_, _)
ModelAt(tcs, n) ==
    IF n = 0 THEN ModelDefaults ELSE ApplyChanges(ModelAt(tcs, n - 1), tcs[n].changes)

\* the result of a run: per timecourse its reported start time and its model
RunResult(tcs, time_offset) ==
    [i \in DOMAIN tcs |->
        [time |-> SumEnd(tcs, i - 1) + time_offset, model |-> ModelAt(tcs, i)]]

\* an experiment's simulations() is called: new objects, new simulations
Build(study) ==
    /\ nbuilt[study] < MaxBuilds
    /\ LET b == build(study, heap)
       IN  /\ heap' = b.heap
           /\ returned' = Append(returned, b.returned)
           /\ tcsims' = [tcsims EXCEPT ![study] = b.tcsims]
    /\ nbuilt' = [nbuilt EXCEPT ![study] = @ + 1]
    /\ UNCHANGED <<results, runs>>

\* a simulation is run on a model instance of its own: its timecourses and
\* their changes are read
Run(s) ==
    /\ Len(runs) < MaxRuns
    /\ s \in BuiltSimulations
    /\ results' = [results EXCEPT
                     ![s] = RunResult(View(heap, s), tcsims[s[1]][s[2]].time_offset)]
    /\ runs' = Append(runs, s)
    /\ UNCHANGED <<heap, tcsims, nbuilt, returned>>

ExperimentSimulations ==
    UNION {{<<study, key>> : key \in DOMAIN Simulations[study]} : study \in Experiments}

HeapStart ==
    /\ heap = <<>>
    /\ tcsims = [study \in Experiments |-> <<>>]
    /\ nbuilt = [study \in Experiments |-> 0]
    /\ returned = <<>>
    /\ results = [s \in ExperimentSimulations |-> <<>>]
    /\ runs = <<>>

HeapStep ==
    \/ \E study \in Experiments : Build(study)
    \/ \E s \in ExperimentSimulations : Run(s)

\* no experiment is built
HeapIdle == HeapStart

ChainInit == ChainStart /\ KidneyIdle /\ SeqIdle /\ HeapIdle /\ BuildIdle /\ PkIdle /\ ConvIdle /\ PlotIdle /\ FitIdle /\ SelIdle /\ SplitIdle /\ FilterIdle /\ BileIdle /\ TagIdle /\ DoseIdle /\ TaskIdle

ChainNext == ChainStep /\ UNCHANGED <<kidneyVars, seqVars, heapVars, buildVars, pkVars, convVars, plotVars, fitVars, selVars, splitVars, filterVars, bileVars, tagVars, doseVars, taskVars>>

Spec == ChainInit /\ [][ChainNext]_vars

KidneyInit == KidneyStart /\ ChainIdle /\ SeqIdle /\ HeapIdle /\ BuildIdle /\ PkIdle /\ ConvIdle /\ PlotIdle /\ FitIdle /\ SelIdle /\ SplitIdle /\ FilterIdle /\ BileIdle /\ TagIdle /\ DoseIdle /\ TaskIdle

KidneyNext == KidneyStep /\ UNCHANGED <<chainVars, seqVars, heapVars, buildVars, pkVars, convVars, plotVars, fitVars, selVars, splitVars, filterVars, bileVars, tagVars, doseVars, taskVars>>

KidneySpec == KidneyInit /\ [][KidneyNext]_vars

SeqInit == SeqStart /\ ChainIdle /\ KidneyIdle /\ HeapIdle /\ BuildIdle /\ PkIdle /\ ConvIdle /\ PlotIdle /\ FitIdle /\ SelIdle /\ SplitIdle /\ FilterIdle /\ BileIdle /\ TagIdle /\ DoseIdle /\ TaskIdle

SeqNext == SeqStep /\ UNCHANGED <<chainVars, kidneyVars, heapVars, buildVars, pkVars, convVars, plotVars, fitVars, selVars, splitVars, filterVars, bileVars, tagVars, doseVars, taskVars>>

SeqSpec == SeqInit /\ [][SeqNext]_vars

RunInit == HeapStart /\ ChainIdle /\ KidneyIdle /\ SeqIdle /\ BuildIdle /\ PkIdle /\ ConvIdle /\ PlotIdle /\ FitIdle /\ SelIdle /\ SplitIdle /\ FilterIdle /\ BileIdle /\ TagIdle /\ DoseIdle /\ TaskIdle

RunNext == HeapStep /\ UNCHANGED <<chainVars, kidneyVars, seqVars, buildVars, pkVars, convVars, plotVars, fitVars, selVars, splitVars, filterVars, bileVars, tagVars, doseVars, taskVars>>

RunSpec == RunInit /\ [][RunNext]_vars

BuildInit == BuildStart /\ ChainIdle /\ KidneyIdle /\ SeqIdle /\ HeapIdle /\ PkIdle /\ ConvIdle /\ PlotIdle /\ FitIdle /\ SelIdle /\ SplitIdle /\ FilterIdle /\ BileIdle /\ TagIdle /\ DoseIdle /\ TaskIdle

BuildNext == BuildStep /\ UNCHANGED <<chainVars, kidneyVars, seqVars, heapVars, pkVars, convVars, plotVars, fitVars, selVars, splitVars, filterVars, bileVars, tagVars, doseVars, taskVars>>

BuildSpec == BuildInit /\ [][BuildNext]_vars

PkInit == PkStart /\ ChainIdle /\ KidneyIdle /\ SeqIdle /\ HeapIdle /\ BuildIdle /\ ConvIdle /\ PlotIdle /\ FitIdle /\ SelIdle /\ SplitIdle /\ FilterIdle /\ BileIdle /\ TagIdle /\ DoseIdle /\ TaskIdle

PkNext == PkStep /\ UNCHANGED <<chainVars, kidneyVars, seqVars, heapVars, buildVars, convVars, plotVars, fitVars, selVars, splitVars, filterVars, bileVars, tagVars, doseVars, taskVars>>

PkSpec == PkInit /\ [][PkNext]_vars

ConvInit == ConvStart /\ ChainIdle /\ KidneyIdle /\ SeqIdle /\ HeapIdle /\ BuildIdle /\ PkIdle /\ PlotIdle /\ FitIdle /\ SelIdle /\ SplitIdle /\ FilterIdle /\ BileIdle /\ TagIdle /\ DoseIdle /\ TaskIdle

ConvNext == ConvStep /\ UNCHANGED <<chainVars, kidneyVars, seqVars, heapVars, buildVars, pkVars, plotVars, fitVars, selVars, splitVars, filterVars, bileVars, tagVars, doseVars, taskVars>>

ConvSpec == ConvInit /\ [][ConvNext]_vars

PlotInit == PlotStart /\ ChainIdle /\ KidneyIdle /\ SeqIdle /\ HeapIdle /\ BuildIdle /\ PkIdle /\ ConvIdle /\ FitIdle /\ SelIdle /\ SplitIdle /\ FilterIdle /\ BileIdle /\ TagIdle /\ DoseIdle /\ TaskIdle

PlotNext == PlotStep /\ UNCHANGED <<chainVars, kidneyVars, seqVars, heapVars, buildVars, pkVars, convVars, fitVars, selVars, splitVars, filterVars, bileVars, tagVars, doseVars, taskVars>>

PlotSpec == PlotInit /\ [][PlotNext]_vars

FitInit == FitStart /\ ChainIdle /\ KidneyIdle /\ SeqIdle /\ HeapIdle /\ BuildIdle /\ PkIdle /\ ConvIdle /\ PlotIdle /\ SelIdle /\ SplitIdle /\ FilterIdle /\ BileIdle /\ TagIdle /\ DoseIdle /\ TaskIdle

FitNext == FitStep /\ UNCHANGED <<chainVars, kidneyVars, seqVars, heapVars, buildVars, pkVars, convVars, plotVars, selVars, splitVars, filterVars, bileVars, tagVars, doseVars, taskVars>>

FitSpec == FitInit /\ [][FitNext]_vars

\* every stage-transfer reaction with a positive rate eventually proceeds
SelInit == SelStart /\ KidneyIdle /\ SeqIdle /\ HeapIdle /\ BuildIdle /\ PkIdle /\ ConvIdle /\ PlotIdle /\ FitIdle /\ ChainIdle /\ SplitIdle /\ FilterIdle /\ BileIdle /\ TagIdle /\ DoseIdle /\ TaskIdle

SelNext == SelStep /\ UNCHANGED <<chainVars, kidneyVars, seqVars, heapVars, buildVars, pkVars, convVars, plotVars, fitVars, splitVars, filterVars, bileVars, tagVars, doseVars, taskVars>>

SelSpec == SelInit /\ [][SelNext]_vars

SplitInit == SplitStart /\ KidneyIdle /\ SeqIdle /\ HeapIdle /\ BuildIdle /\ PkIdle /\ ConvIdle /\ PlotIdle /\ FitIdle /\ SelIdle /\ ChainIdle /\ FilterIdle /\ BileIdle /\ TagIdle /\ DoseIdle /\ TaskIdle

SplitNext == SplitStep /\ UNCHANGED <<chainVars, kidneyVars, seqVars, heapVars, buildVars, pkVars, convVars, plotVars, fitVars, selVars, filterVars, bileVars, tagVars, doseVars, taskVars>>

SplitSpec == SplitInit /\ [][SplitNext]_vars

FilterInit == FilterStart /\ KidneyIdle /\ SeqIdle /\ HeapIdle /\ BuildIdle /\ PkIdle /\ ConvIdle /\ PlotIdle /\ FitIdle /\ SelIdle /\ SplitIdle /\ ChainIdle /\ BileIdle /\ TagIdle /\ DoseIdle /\ TaskIdle

FilterNext == FilterStep /\ UNCHANGED <<chainVars, kidneyVars, seqVars, heapVars, buildVars, pkVars, convVars, plotVars, fitVars, selVars, splitVars, bileVars, tagVars, doseVars, taskVars>>

FilterSpec == FilterInit /\ [][FilterNext]_vars

BileInit == BileStart /\ KidneyIdle /\ SeqIdle /\ HeapIdle /\ BuildIdle /\ PkIdle /\ ConvIdle /\ PlotIdle /\ FitIdle /\ SelIdle /\ SplitIdle /\ FilterIdle /\ ChainIdle /\ TagIdle /\ DoseIdle /\ TaskIdle

BileNext == BileStep /\ UNCHANGED <<chainVars, kidneyVars, seqVars, heapVars, buildVars, pkVars, convVars, plotVars, fitVars, selVars, splitVars, filterVars, tagVars, doseVars, taskVars>>

BileSpec == BileInit /\ [][BileNext]_vars

TagInit == TagStart /\ KidneyIdle /\ SeqIdle /\ HeapIdle /\ BuildIdle /\ PkIdle /\ ConvIdle /\ PlotIdle /\ FitIdle /\ SelIdle /\ SplitIdle /\ FilterIdle /\ BileIdle /\ ChainIdle /\ DoseIdle /\ TaskIdle

TagNext == TagStep /\ UNCHANGED <<chainVars, kidneyVars, seqVars, heapVars, buildVars, pkVars, convVars, plotVars, fitVars, selVars, splitVars, filterVars, bileVars, doseVars, taskVars>>

TagSpec == TagInit /\ [][TagNext]_vars

DoseInit == DoseStart /\ KidneyIdle /\ SeqIdle /\ HeapIdle /\ BuildIdle /\ PkIdle /\ ConvIdle /\ PlotIdle /\ FitIdle /\ SelIdle /\ SplitIdle /\ FilterIdle /\ BileIdle /\ TagIdle /\ ChainIdle /\ TaskIdle

DoseNext == DoseStep /\ UNCHANGED <<chainVars, kidneyVars, seqVars, heapVars, buildVars, pkVars, convVars, plotVars, fitVars, selVars, splitVars, filterVars, bileVars, tagVars, taskVars>>

DoseSpec == DoseInit /\ [][DoseNext]_vars

TaskInit == TaskStart /\ KidneyIdle /\ SeqIdle /\ HeapIdle /\ BuildIdle /\ PkIdle /\ ConvIdle /\ PlotIdle /\ FitIdle /\ SelIdle /\ SplitIdle /\ FilterIdle /\ BileIdle /\ TagIdle /\ DoseIdle /\ ChainIdle

TaskNext == TaskStep /\ UNCHANGED <<chainVars, kidneyVars, seqVars, heapVars, buildVars, pkVars, convVars, plotVars, fitVars, selVars, splitVars, filterVars, bileVars, tagVars, doseVars>>

TaskSpec == TaskInit /\ [][TaskNext]_vars

FairSpec ==
    Spec /\ \A r \in ChainReactions : WF_vars(Fire(r) /\ UNCHANGED <<kidneyVars, seqVars, heapVars, buildVars, pkVars, convVars, plotVars, fitVars, selVars, splitVars, filterVars, bileVars, tagVars, doseVars, taskVars>>)

(***************************************************************************)
(* Claims about the excretion chain.                                       *)
(***************************************************************************)
RECURSIVE StageSum(_, _)
StageSum(sid, k) ==
    IF k < 0 THEN 0 ELSE amt[Intestine(sid, k)] + StageSum(sid, k - 1)

ChainSum(sid) == StageSum(sid, n_chain - 1)

\* C1: for each substance the amounts in the n_chain stages plus the amount in
\* feces equal the cumulative amount that entered stage 0, and the feces of emp
\* never hold more than the oral dose divided by the molar mass.
C1_MassConservation ==
    /\ \A sid \in substance_info :
          /\ ChainSum(sid) + amt[Feces(sid)] = entered[sid]
          /\ amt[Feces(sid)] <= entered[sid]
    /\ amt[Feces("emp")] * Mr_emp <= dose0

C1_Witness ==
    /\ dose0 = MaxDose * Mr_emp
    /\ amt[Feces("emp")] > 0
    /\ ChainSum("emp") > 0
    /\ amt[Feces("eg")] > 0

InflowStopped(sid) ==
    /\ amt[Lumen(sid)] = 0
    /\ IF sid = "emp" THEN PODOSE_emp < Mr_emp ELSE eg_li = 0

Drained(sid) == ChainSum(sid) = 0 /\ amt[Feces(sid)] = entered[sid]

\* C2: once the inflow into the chain head has stopped, eventually every
\* stage is empty and feces hold all that entered stage 0 (under weak fairness
\* of the stage-transfer reactions).
C2_CompleteTransit ==
    \A sid \in substance_info : InflowStopped(sid) ~> Drained(sid)

C2_Witness ==
    \A sid \in substance_info :
        InflowStopped(sid) /\ Drained(sid) /\ entered[sid] > 0

ExpectedOrder(sid) ==
    [i \in 1 .. n_chain + 1 |->
        IF i <= n_chain THEN Intestine(sid, i - 1) ELSE Feces(sid)]

\* C3: every stage k has exactly one excretion reaction, from stage k to stage
\* k+1, or to feces for the last stage; a stage is fed only by its predecessor
\* (stage 0 by the lumen) and feces only by the last stage; so the places of the
\* chain are first reached in the order stage 0, 1, ..., n_chain-1, feces.
C3_ChainOrder ==
    \A sid \in substance_info :
        /\ \A k \in 0 .. n_chain - 1 :
              LET out == {r \in Reactions : r.reactant = Intestine(sid, k)}
                  into == {r \in Reactions : r.product = Intestine(sid, k)}
              IN  /\ Cardinality(out) = 1
                  /\ \A r \in out :
                        /\ k < n_chain - 1 => r.product = Intestine(sid, k + 1)
                        /\ k = n_chain - 1 => r.product = Feces(sid)
                  /\ \A r \in into :
                        /\ k > 0 => r.reactant = Intestine(sid, k - 1)
                        /\ k = 0 => r.reactant = Lumen(sid)
        /\ \A r \in Reactions :
              r.product = Feces(sid) => r.reactant = Intestine(sid, n_chain - 1)
        /\ Len(order[sid]) <= n_chain + 1
        /\ order[sid] = SubSeq(ExpectedOrder(sid), 1, Len(order[sid]))
        /\ \A sp \in ChainSpecies(sid) \cup {Feces(sid)} :
              amt[sp] > 0 => \E i \in 1 .. Len(order[sid]) : order[sid][i] = sp

C3_Witness ==
    /\ amt[Feces("eg")] > 0
    /\ Len(order["eg"]) = n_chain + 1
    /\ amt[Intestine("emp", 2)] > 0

(***************************************************************************)
(* Claims about the renal threshold and the glucose excretion.             *)
(***************************************************************************)
\* C4: without drug (emp_ext = 0) RTG equals RTG_fpg exactly, whatever
\* RTG_E50, RTG_gamma and RTG_delta are.
C4_RTGWithoutDrug ==
    /\ REq(RTG(KI__par, KI__fpg, 0), RTG_fpg(KI__par, KI__fpg))
    /\ KI__emp_ext = 0 =>
         RTG(KI__par, KI__fpg, KI__emp_ext) = RTG_fpg(KI__par, KI__fpg)

C4_Witness ==
    /\ KI__emp_ext = 0
    /\ KI__emp_urine = MaxEmp
    /\ KI__par.RTG_E50 = MaxE50
    /\ KI__par.RTG_gamma = MaxGamma
    /\ KI__par.RTG_max_inhibition = <<17, 25>>

\* C5: the glucose excretion rate is never negative, is zero whenever
\* fpg <= RTG, and is GFR/cf_ml_per_l * (fpg - RTG) whenever fpg > RTG.
C5_GlucoseExcretionRate ==
    LET rtg == RTG(KI__par, KI__fpg, KI__emp_ext)
        rate == GLCEX(KI__par, KI__fpg, KI__emp_ext)
        linear == RMul(RDiv(GFR(KI__par), R(cf_ml_per_l)), RSub(KI__fpg, rtg))
    IN  /\ RLe(R(0), rate)
        /\ RLe(KI__fpg, rtg) => REq(rate, R(0))
        /\ RLt(rtg, KI__fpg) => REq(rate, linear)
        /\ REq(rate, IF RLt(R(0), linear) THEN linear ELSE R(0))

\* glucose was excreted, and the drug level now puts RTG exactly at fpg
C5_Witness ==
    /\ REq(RTG(KI__par, KI__fpg, KI__emp_ext), KI__fpg)
    /\ KI__glc_urine > 0
    /\ KI__emp_ext > 0

\* C6: for every drug concentration RTG_fpg - RTG_delta < RTG <= RTG_fpg, and a
\* higher concentration never gives a higher RTG.
C6_RTGSaturates ==
    LET rtg(e) == RTG(KI__par, KI__fpg, e)
        top == RTG_fpg(KI__par, KI__fpg)
        \* RTG_fpg - RTG_delta, with RTG_delta = RTG_fpg * RTG_max_inhibition
        floor == RMul(top, RSub(R(1), KI__par.RTG_max_inhibition))
    IN  /\ RLt(floor, rtg(KI__emp_ext))
        /\ RLe(rtg(KI__emp_ext), top)
        /\ \A e \in 0 .. KI__emp_ext : RLe(rtg(KI__emp_ext), rtg(e))
        /\ \A e \in KI__emp_ext .. MaxEmp + 1 :
              RLe(rtg(e), rtg(KI__emp_ext)) /\ RLt(floor, rtg(e))

C6_Witness ==
    /\ KI__emp_ext = MaxEmp
    /\ KI__par.RTG_gamma = MaxGamma
    /\ RLt(RTG(KI__par, KI__fpg, KI__emp_ext), RTG(KI__par, KI__fpg, 1))

(***************************************************************************)
(* Claims about the dosing regimens (SeqSpec).                             *)
(***************************************************************************)
\* the parameters a first segment sets and later segments may omit
Persisting == {"BW", "KI__fpg", "KI__f_renal_function"} \cup DOMAIN default_changes

\* C7: segment overrides are deltas. A parameter (BW, [KI__fpg],
\* KI__f_renal_function, a default parameter change) that the map of the
\* running segment omits keeps its value over every step, the start of the
\* segment included: only listed keys change at a segment's start; so in every
\* later segment the parameters set by the first segment still have the
\* first segment's values.
C7_OverridesAreDeltas ==
    /\ [](seg >= 1 =>
            \A key \in Persisting \cap DOMAIN Timecourses[1].changes :
                (\A j \in 2 .. seg : key \notin DOMAIN Timecourses[j].changes)
                    => model[key] = Timecourses[1].changes[key])
    /\ [][/\ \A key \in Persisting :
                (seg' >= 1 /\ key \notin DOMAIN Timecourses[seg'].changes)
                    => model'[key] = model[key]
          /\ seg' # seg =>
                \A key \in DOMAIN model \ DOMAIN Timecourses[seg'].changes :
                    model'[key] = model[key]]_vars

\* Heise2013a, a repeated segment that omits BW and [KI__fpg], after glucose
\* was excreted from fpg in it; Kim2021 in its last segment
C7_Witness ==
    \/ /\ sim = <<"Heise2013a", "EMP25">>
       /\ seg = 3
       /\ "KI__fpg" \notin DOMAIN Timecourses[seg].changes
       /\ excreted.KI__glc_urine = 1
       /\ model.KI__fpg = 924
       /\ model.BW = 896
    \/ /\ sim = <<"Kim2021", "po_emp25_E">>
       /\ seg = 5
       /\ phase = "run"
       /\ "KI__f_renal_function" \notin DOMAIN Timecourses[seg].changes
       /\ model.KI__f_renal_function = 100
       /\ model.PODOSE_emp = 0

\* the dose of a regimen: the dose of its first segment
RegimenDose == Timecourses[1].changes.PODOSE_emp

\* C8: in every multi-dose regimen each repeated segment sets PODOSE_emp to
\* the regimen's dose and sets every cumulative excretion species the study
\* tracks to zero: a dosing interval starts with the tracked amount at 0, and
\* the tracked amount is at all times the excretion of the running interval.
C8_RepeatedSegmentsReset ==
    /\ (seg >= 2 /\ phase = "start") =>
            /\ model.PODOSE_emp = RegimenDose
            /\ "PODOSE_emp" \in DOMAIN Timecourses[seg].changes
            /\ \A sp \in Tracked(sim[1]) : sp \in DOMAIN Timecourses[seg].changes
    /\ (seg >= 1 /\ phase = "start") =>
            \A sp \in Tracked(sim[1]) : model[sp] = 0
    /\ seg >= 1 => \A sp \in Tracked(sim[1]) : model[sp] = excreted[sp]

\* a repeated segment of Brand2012 after drug was excreted into urine in an
\* earlier interval and again in this one
C8_Witness ==
    /\ sim = <<"Brand2012", "po_EMP50_D10">>
    /\ seg = 4
    /\ earlier.Aurine_emp
    /\ excreted.Aurine_emp = 1
    /\ model.Aurine_emp = 1

\* every segment of a regimen gives a dose: the last dose is the last segment
LastDoseSegment == Len(Timecourses)

\* the studies whose regimens report time since the first dose
FirstDoseStudies == {"Heise2013a", "Zhao2015"}

\* C9 as claimed: in every multi-dose regimen the time offset is minus the
\* summed duration of the segments before the segment of the last dose, and
\* the last dose is given at reported time zero.
C9_Original ==
    /\ sim \in SimulationKeys =>
            Simulations[sim[1]][sim[2]].time_offset
                = -SumEnd(Timecourses, LastDoseSegment - 1)
    /\ (seg = LastDoseSegment /\ phase = "start") => ReportedTime = 0

\* C9: in the multi-dose regimens of Brand2012, Friedrich2013, Kim2021,
\* Kim2023, Macha2013e, Macha2015b and vanderAartvanderBeek2020 the time
\* offset is minus the summed duration of the segments before the segment of
\* the last dose, and the last dose is given at reported time zero; the
\* regimens of Heise2013a and Zhao2015 have offset zero: their reported time
\* is the time since the first dose, and their last dose is given at the
\* summed duration of the earlier segments.
C9_TimeOffset ==
    /\ (sim \in SimulationKeys /\ sim[1] \notin FirstDoseStudies) =>
            /\ Simulations[sim[1]][sim[2]].time_offset
                    = -SumEnd(Timecourses, LastDoseSegment - 1)
            /\ (seg = LastDoseSegment /\ phase = "start") => ReportedTime = 0
    /\ (sim \in SimulationKeys /\ sim[1] \in FirstDoseStudies) =>
            /\ Simulations[sim[1]][sim[2]].time_offset = 0
            /\ ReportedTime = time
            /\ (seg = LastDoseSegment /\ phase = "start") =>
                    ReportedTime = SumEnd(Timecourses, LastDoseSegment - 1)

\* the last dose of the 10-day regimen of Brand2012 is being given, or the
\* last dose of a regimen of Zhao2015
C9_Witness ==
    /\ seg = LastDoseSegment
    /\ phase = "start"
    /\ \/ sim = <<"Brand2012", "po_EMP50_D10">> /\ time = 9 * 24 * 60
       \/ sim = <<"Zhao2015", "MULTI10">> /\ time = 8 * 24 * 60

(***************************************************************************)
(* Claim about the isolation of runs (RunSpec).                            *)
(***************************************************************************)
\* the objects a simulation reaches: its list, its Timecourses, their maps
Reach(h, s) ==
    LET list == tcsims[s[1]][s[2]].timecourses
        tcs  == {h[list].items[i] : i \in DOMAIN h[list].items}
    IN  {list} \cup tcs \cup {h[tc].changes : tc \in tcs}

\* C10: run isolation. Every call of default_changes() returns a map of its
\* own, which no Timecourse holds; no step (building or running a simulation)
\* changes an object that exists, so the list and the changes maps of every
\* other simulation stay as they are, shared Timecourses included; the
\* timecourses a simulation holds are those its experiment states, and the
\* result of every run is the one result of that simulation, whatever was
\* built or run before it.
C10_RunIsolation ==
    /\ [](/\ \A i, j \in DOMAIN returned : i # j => returned[i] # returned[j]
          /\ \A i \in DOMAIN returned, s \in BuiltSimulations :
                returned[i] \notin Reach(heap, s)
          /\ \A s \in BuiltSimulations :
                View(heap, s) = Simulations[s[1]][s[2]].timecourses
          /\ \A i \in DOMAIN runs :
                results[runs[i]] =
                    RunResult(Simulations[runs[i][1]][runs[i][2]].timecourses,
                              Simulations[runs[i][1]][runs[i][2]].time_offset))
    /\ [][/\ \A id \in DOMAIN heap : heap'[id] = heap[id]
          /\ \A s \in ExperimentSimulations :
                (runs' # runs /\ runs'[Len(runs')] # s) => results'[s] = results[s]]_vars

\* both simulations of Brand2012 were run, the 10-day regimen first, over
\* the Timecourses they share, after every experiment was built twice
C10_Witness ==
    /\ \A study \in Experiments : nbuilt[study] = MaxBuilds
    /\ Len(runs) = 3
    /\ runs[1] = <<"Brand2012", "po_EMP50_D10">>
    /\ runs[2] = <<"Kim2023", "po_emp25">>
    /\ runs[3] = <<"Brand2012", "po_EMP50_D5">>
    /\ LET l5  == heap[tcsims.Brand2012.po_EMP50_D5.timecourses].items
           l10 == heap[tcsims.Brand2012.po_EMP50_D10.timecourses].items
       IN  /\ l5[1] = l10[1]
           /\ l5[2] = l5[3]
           /\ l5[2] = l10[9]
           /\ l5[5] = l10[10]
    /\ results[runs[3]][5].model.BW = 780
    /\ results[runs[2]][5].model.BW = 750

(***************************************************************************)
(* Claims about the building of the intestine model (BuildSpec).           *)
(***************************************************************************)
\* the sum of the first n of the volumes vs
RECURSIVE VolumeSum(_, _)
VolumeSum(vs, n) == IF n = 0 THEN R(0) ELSE RAdd(VolumeSum(vs, n - 1), vs[n])

StageVolumeSum == VolumeSum(m_compartments, Len(m_compartments))

\* C12 as claimed: every stage compartment has the volume Vlumen / N, and
\* the N stage volumes sum to the lumen volume Vlumen in every state, also
\* after Vlumen was changed.
C12_Original ==
    (BuildDone /\ build_n > 0) =>
        /\ \A k \in DOMAIN m_compartments :
                REq(RMul(R(build_n), m_compartments[k]), R(Vlumen_now))
        /\ REq(StageVolumeSum, R(Vlumen_now))

\* C12: every stage compartment has the same volume, the declared lumen
\* volume 1.2825 * 0.9 divided by the chain length N, and keeps it in every
\* step; the N stage volumes sum to the declared lumen volume, and to the
\* value of Vlumen exactly as long as Vlumen has its declared value: a change
\* of the non-constant Vlumen leaves the stage volumes as they are.
C12_StageVolumes ==
    /\ [](/\ \A k \in DOMAIN m_compartments :
                REq(RMul(R(build_n), m_compartments[k]), R(Vlumen))
          /\ (BuildDone /\ build_n > 0) =>
                /\ Len(m_compartments) = build_n
                /\ REq(StageVolumeSum, R(Vlumen))
                /\ REq(StageVolumeSum, R(Vlumen_now)) <=> Vlumen_now = Vlumen)
    /\ [][\A k \in DOMAIN m_compartments : m_compartments'[k] = m_compartments[k]]_vars

\* the model with five stages after Vlumen was changed to the volume of 78 kg
C12_Witness ==
    /\ BuildDone
    /\ build_n = n_chain
    /\ Vlumen_now = LumenVolume(780)
    /\ REq(StageVolumeSum, R(Vlumen))
    /\ ~REq(StageVolumeSum, R(Vlumen_now))

RowsOf(k, j) ==
    {i \in DOMAIN pk_dicts : pk_dicts[i].c_vec[1] = substance_ids[j] /\ pk_dicts[i].c_vec[3] = k}

\* C14: for a result with one scanned dimension of n points the returned
\* table has 3 * n rows: for every scan index k and every substance
\* (empagliflozin, empagliflozin-glucuronide, total empagliflozin) exactly
\* one row, computed from that substance's concentrations at k and labelled
\* with the substance.
C14_OneRowPerPair ==
    (pk_pc = "returned" /\ Len(xres.dims) = 1) =>
        /\ Len(pk_dicts) = 3 * xres.dims[1]
        /\ \A k \in 0 .. xres.dims[1] - 1, j \in 1 .. 3 :
                /\ Cardinality(RowsOf(k, j)) = 1
                /\ \A i \in RowsOf(k, j) :
                        /\ pk_dicts[i].substance = substances[j]
                        /\ pk_dicts[i].dose = xres.PODOSE_emp[k + 1]
                        /\ i = 3 * k + j

\* the table of a scan of three doses, not all the same
C14_Witness ==
    /\ pk_pc = "returned"
    /\ xres.dims = <<3>>
    /\ Len(pk_dicts) = 9
    /\ pk_dicts[1].dose # pk_dicts[9].dose
    /\ pk_dicts[9].substance = "total empagliflozin"

DirectFails == ~SameDimension(conv_in.y.unit, target_unit)

MolarMassKnown ==
    /\ conv_in.substance # "None"
    /\ Lower[conv_in.substance] \in
            {"empagliflozin", "empagliflozin-glucuronide", "eg", "total empagliflozin"}

\* C16: the conversion first tries the target unit directly and returns that
\* result when the dimensions agree; the molar mass is used only after the
\* direct conversion failed with a dimensionality error, and then the value
\* times the molar mass of the substance is converted; for a substance
\* without a known molar mass (unknown name, or none) the failed direct
\* conversion ends in the error, and nothing is returned.
C16_ConvertPkQuantity ==
    /\ attempts # <<>> => attempts[1] = "direct"
    /\ Len(attempts) > 1 => DirectFails /\ MolarMassKnown /\ attempts = <<"direct", "molar mass">>
    /\ conv_pc = "returned" =>
            /\ conv_out.unit = target_unit
            /\ IF DirectFails
               THEN /\ MolarMassKnown
                    /\ conv_in.y.unit.amount = target_unit.amount + 1
                    /\ conv_in.y.unit.mass = target_unit.mass - 1
                    /\ REq(RMul(conv_out.magnitude, R(target_unit.scale)),
                           RMul(RMul(conv_in.y.magnitude, R(conv_in.y.unit.scale)),
                                IF Lower[conv_in.substance] \in {"eg", "empagliflozin-glucuronide"}
                                THEN Mr.eg ELSE Mr.emp))
               ELSE /\ attempts = <<"direct">>
                    /\ REq(RMul(conv_out.magnitude, R(target_unit.scale)),
                           RMul(conv_in.y.magnitude, R(conv_in.y.unit.scale)))
    /\ conv_pc = "raised" => DirectFails /\ conv_out = NoQuantity
    /\ (conv_pc \in {"returned", "raised"} /\ DirectFails /\ ~MolarMassKnown) =>
            conv_pc = "raised" /\ attempts = <<"direct">>

\* an amount concentration of a substance without molar mass fails to
\* convert to the unit of cmax (ng/ml)
C16_Witness ==
    /\ conv_pc = "raised"
    /\ conv_in.substance \in {"glucose", "None"}
    /\ conv_in.y.unit = Units.umole_per_l
    /\ conv_in.pk_key = "cmax"
    /\ attempts = <<"direct">>
    /\ conv_out = NoQuantity

(***************************************************************************)
(* Claims about the study data of a panel (PlotSpec).                      *)
(***************************************************************************)
\* C17: a study-data row of a renal or hepatic scan whose condition label is
\* not in the condition map, or is missing, is never left out of the plot:
\* no run of the row loop passes over such a row.
C17_UnmappedConditionIsFatal == skipped = {}

\* the calls that are over and had no row to work on
EmptyCalls == {c \in 1 .. Len(returns) : Len(df_filtered(Calls[c])) = 0}

RECURSIVE MaxOver(_, _)
MaxOver(y, cs) ==
    IF cs = {} THEN y
    ELSE LET c == CHOOSE c \in cs : TRUE
         IN  MaxOver(RMax(y, returns[c].max_y), cs \ {c})

\* C18: a call that finds no row for its substance and parameter returns
\* "no contribution" (no maximum, no marker map), draws nothing and names no
\* study; the formatted panel has the y-range of the simulation and of the
\* calls that had rows, and its study markers are theirs alone.
C18_EmptyIsNoContribution ==
    /\ \A c \in EmptyCalls :
            /\ returns[c].none
            /\ returns[c].markers = {}
            /\ \A p \in drawn : p.call # c
    /\ \A c \in (1 .. Len(returns)) \ EmptyCalls : ~returns[c].none
    /\ plot_pc = "done" =>
            /\ Len(returns) = Len(Calls)
            /\ REq(ylim, RMul(RDiv(R(105), R(100)),
                              MaxOver(R(plot_in.sim_ymax),
                                      (1 .. Len(returns)) \ EmptyCalls)))
            /\ {p[1] : p \in study_markers} =
                    UNION {{p[1] : p \in returns[c].markers} :
                                c \in (1 .. Len(returns)) \ EmptyCalls}
            /\ \A st \in studies_in_legend :
                    \E c \in (1 .. Len(returns)) \ EmptyCalls :
                        \E i \in 1 .. Len(df_filtered(Calls[c])) :
                            df_filtered(Calls[c])[i].study = st

\* a formatted pk panel: no row for empagliflozin, a drawn row of the
\* glucuronide that lies above the simulation
C18_Witness ==
    /\ plot_pc = "done"
    /\ plot_in.panel = "pk"
    /\ returns[1].none
    /\ ~returns[2].none
    /\ drawn # {}
    /\ RLt(R(plot_in.sim_ymax), study_max_y)
    /\ study_markers # {}

(***************************************************************************)
(* Claims about the registries and the filters (FitSpec).                  *)
(***************************************************************************)
Flagged ==
    /\ fit_in.study = "Hailat2022" => fit_in.metadata.outlier
    /\ (fit_pc = "control" /\ fit_in.metadata.outlier) => ~fit_result
    /\ fit_pc = "all" => fit_result

\* C19 as stated: the outlier study Hailat2022 is in every registry of
\* studies, of the fits and of the simulations; each of its mappings
\* carries the outlier flag, filter_control rejects a flagged mapping whatever
\* its other metadata, and the unfiltered set keeps it.
C19_Original ==
    /\ "Hailat2022" \in Range(experiment_classes)
    /\ "Hailat2022" \in Range(EXPERIMENTS.studies)
    /\ "Hailat2022" \in Range(EXPERIMENTS.all)
    /\ Flagged

\* C19: the outlier study Hailat2022 is in the registry of the fits, and it
\* is left out of the registries of the simulations; each of its mappings
\* carries the outlier flag, filter_control rejects a flagged mapping whatever
\* its other metadata, and the unfiltered set keeps it.
C19_OutlierKeptForFitting ==
    /\ "Hailat2022" \in Range(experiment_classes)
    /\ \A group \in DOMAIN EXPERIMENTS : "Hailat2022" \notin Range(EXPERIMENTS[group])
    /\ Flagged

\* a fasted Hailat2022 mapping, rejected by filter_control for its flag alone
C19_Witness ==
    /\ fit_in.study = "Hailat2022"
    /\ fit_in.key = "fasting_test"
    /\ fit_pc = "control"
    /\ ~fit_result
    /\ filter_control([fit_in.metadata EXCEPT !.outlier = FALSE])

\* C20: filter_control accepts a mapping exactly when the route is PO or IV,
\* nothing is coadministered, health is HEALTHY, T2DM or HYPERTENSION,
\* fasting is FASTED or NR and the outlier flag is not set; tissue,
\* application form and dosing play no part.
C20_FilterControl ==
    fit_pc = "control" =>
        (fit_result <=>
            /\ fit_in.metadata.route \in {"PO", "IV"}
            /\ fit_in.metadata.coadministration = "NONE"
            /\ fit_in.metadata.health \in {"HEALTHY", "T2DM", "HYPERTENSION"}
            /\ fit_in.metadata.fasting \in {"FASTED", "NR"}
            /\ ~fit_in.metadata.outlier)

\* an accepted mapping of multiple dosing measured in urine
C20_Witness ==
    /\ fit_pc = "control"
    /\ fit_result
    /\ fit_in.metadata.dosing = "MULTIPLE"
    /\ fit_in.metadata.tissue = "URINE"
    /\ fit_in.metadata.application_form = "NR"
    /\ fit_in.metadata.health = "HYPERTENSION"

(***************************************************************************)
(* Claim about the selection of experiments (SelSpec).                     *)
(***************************************************************************)
InvalidSelection ==
    /\ ~sel_in.experiment_classes.given
    /\ sel_in.selected \notin DOMAIN EXPERIMENTS

\* C21: experiments run only for a valid selection; a call with an unknown
\* group name, or with neither a group name nor a class list, prints an
\* error and returns: no experiment is run and no directory is created.
C21_InvalidSelectionRunsNothing ==
    /\ InvalidSelection =>
            /\ ran = <<>>
            /\ dirs = dirs0
            /\ sel_pc \in {"call", "returned"}
            /\ sel_pc = "returned" => Len(console) = 1 /\ console[1] # "Figures copied to"
    /\ sel_pc \in {"run", "collect"} \/ ran # <<>> \/ dirs # dirs0 => ~InvalidSelection

\* the call with an unknown group name has returned with its error
C21_Witness ==
    /\ sel_in.selected = "unknown"
    /\ ~sel_in.experiment_classes.given
    /\ sel_pc = "returned"
    /\ console = <<"Error: Unknown group">>
    /\ ran = <<>>
    /\ dirs = dirs0

(***************************************************************************)
(* Claim about the final segment of the regimens (SeqSpec).                *)
(***************************************************************************)
\* the segments between the first and the last one
RepeatedSegments == 2 .. Len(Timecourses) - 1

FinalSegment == Timecourses[Len(Timecourses)]

\* segment a has more output steps per unit of simulated time than segment b
Finer(a, b) == a.steps * b.end > b.steps * a.end

\* C22 as stated: every multi-dose regimen ends with one final segment that
\* is no repeated 24 h segment and has more output steps per unit of
\* simulated time than the repeated segments have.
C22_Original ==
    sim \in SimulationKeys =>
        /\ \A j \in RepeatedSegments : Timecourses[j].end = 24 * 60
        /\ \A j \in RepeatedSegments :
                /\ FinalSegment # Timecourses[j]
                /\ Finer(FinalSegment, Timecourses[j])

\* C22: the repeated segments last 24 h; every multi-dose regimen but the one
\* of vanderAartvanderBeek2020 ends with one final segment that is longer
\* than 24 h and has fewer output steps per unit of simulated time than the
\* repeated segments have, and that runs from the end of the repeated
\* segments on; the regimen of vanderAartvanderBeek2020 ends with a repeated
\* 24 h segment.
C22_FinalSegment ==
    sim \in SimulationKeys =>
        /\ \A j \in RepeatedSegments : Timecourses[j].end = 24 * 60
        /\ IF sim[1] = "vanderAartvanderBeek2020"
           THEN \A j \in RepeatedSegments : FinalSegment = Timecourses[j]
           ELSE /\ FinalSegment.end > 24 * 60
                /\ \A j \in RepeatedSegments :
                        /\ FinalSegment # Timecourses[j]
                        /\ Finer(Timecourses[j], FinalSegment)
        /\ seg = Len(Timecourses) =>
                time = SumEnd(Timecourses, Len(Timecourses) - 1)

\* the final segment of 170 h of Macha2013e is running
C22_Witness ==
    /\ sim = <<"Macha2013e", "po_emp25_emp">>
    /\ seg = Len(Timecourses)
    /\ phase = "run"
    /\ FinalSegment.end = 170 * 60
    /\ FinalSegment.steps = 2000

(***************************************************************************)
(* Claim about the split of the lumen outflow (SplitSpec).                 *)
(***************************************************************************)
\* C24: of what leaves the lumen, EMPABS takes the fraction F_emp_abs and
\* EMPEXC the fraction 1 - F_emp_abs, the two summing to 'absorption'; so
\* what was absorbed and what entered the excretion chain stay in the ratio
\* F_emp_abs : 1 - F_emp_abs, and once the dose has left stomach, lumen and
\* stages, the feces hold (1 - F_emp_abs) * D and F_emp_abs * D was absorbed.
C24_AbsorptionSplit ==
    /\ ab_flux.EMPABS + ab_flux.EMPEXC = ab_flux.absorption
    /\ ab_flux.EMPABS * F_scale = F_emp_abs_num * ab_flux.absorption
    /\ ab_flux.EMPEXC * F_scale = (F_scale - F_emp_abs_num) * ab_flux.absorption
    /\ ab_absorbed * (F_scale - F_emp_abs_num) = (ab_chain + ab_feces) * F_emp_abs_num
    /\ ab_stomach + ab_lumen + ab_absorbed + ab_chain + ab_feces = ab_dose
    /\ (ab_stomach = 0 /\ ab_lumen = 0 /\ ab_chain = 0) =>
            /\ ab_feces * F_scale = (F_scale - F_emp_abs_num) * ab_dose
            /\ ab_absorbed * F_scale = F_emp_abs_num * ab_dose

\* the largest dose has passed: 35 % of it lie in the feces
C24_Witness ==
    /\ ab_dose = MaxOral * F_scale
    /\ ab_stomach = 0
    /\ ab_lumen = 0
    /\ ab_chain = 0
    /\ ab_feces = MaxOral * (F_scale - F_emp_abs_num)
    /\ ab_absorbed = MaxOral * F_emp_abs_num

(***************************************************************************)
(* Claim about the healthy reference of the renal threshold (KidneySpec).  *)
(***************************************************************************)
\* [KI__fpg] of a healthy-subject simulation, in mM: the studies set
\* Q_(self.fpg_healthy, "mM"); experiment_fpg_healthy is in 0.01 mM
HealthySimulationFpg == RDiv(R(experiment_fpg_healthy), R(100))

\* C25: in a healthy-subject simulation without drug, in which [KI__fpg] is
\* the healthy reference value of the experiments, the FPG correction
\* RTG_m_fpg * (fpg - fpg_healthy) is zero and RTG equals RTG_base.
C25_RTGBaseIsHealthyRTG ==
    (/\ REq(KI__fpg, HealthySimulationFpg)
     /\ KI__emp_ext = 0
     /\ KI__emp_urine = 0)
    => /\ REq(RMul(KI__par.RTG_m_fpg, RSub(KI__fpg, R(fpg_healthy))), R(0))
       /\ REq(RTG(KI__par, KI__fpg, KI__emp_ext), KI__par.RTG_base)

(***************************************************************************)
(* Claim about the observable filters (FilterSpec).                        *)
(***************************************************************************)
\* the observables the fit mappings of the studies use
FittedObservables == keys(Chen2015a_info) \cup keys(Macha2014f_info)

\* venous concentration, urinary amount and fecal amount of emp, eg, emptot
PharmacokineticObservables ==
    {<<"[Cve_emp]">>, <<"[Cve_eg]">>, <<"[Cve_emptot]">>,
     <<"Aurine_emp">>, <<"Aurine_eg">>, <<"Aurine_emptot">>,
     <<"Afeces_emp">>, <<"Afeces_eg">>, <<"Afeces_emptot">>}

\* C26: filter_pk and filter_pd partition the fitted observables: for an
\* identifier <task>__<yid>, filter_pk accepts exactly the nine
\* pharmacokinetic quantities, filter_pd accepts exactly KI__RTG and KI__UGE,
\* nothing is accepted by both, and every observable a fit mapping uses is
\* accepted by exactly one of the two.
C26_FiltersPartition ==
    flt_called = {"filter_pk", "filter_pd"} =>
      LET yid == yid_of(flt_sid)
      IN  /\ "filter_pk" \in flt_accepted <=> yid \in PharmacokineticObservables
          /\ "filter_pd" \in flt_accepted <=>
                yid \in {<<"KI", "__", "RTG">>, <<"KI", "__", "UGE">>}
          /\ flt_accepted # {"filter_pk", "filter_pd"}
          /\ yid \in FittedObservables => Cardinality(flt_accepted) = 1

(***************************************************************************)
(* Claim about the bile pool (BileSpec).                                   *)
(***************************************************************************)
\* C27: the bile pool is a pure pass-through: the flux EGEHC always equals
\* the flux EGBIEX, eg_bi keeps its initial value 0, and everything EGBIEX
\* exported is in the lumen or has left it through the lumen.
C27_BilePassThrough ==
    /\ li_flux.EGEHC = li_flux.EGBIEX
    /\ li_eg_bi = 0
    /\ li_exported = li_eg_lumen + li_left

\* all of the glucuronide went through the bile, in more than one interval
C27_Witness ==
    /\ li_exported = MaxBile
    /\ li_flux.EGBIEX > 0
    /\ li_flux.EGBIEX < MaxBile
    /\ li_eg_lumen > 0
    /\ li_left > 0

(***************************************************************************)
(* Claim about the tissue tags of the fit mappings (TagSpec).              *)
(***************************************************************************)
VenousConcentrations == {<<"[Cve_emp]">>, <<"[Cve_eg]">>, <<"[Cve_emptot]">>}

UrinaryQuantities ==
    {<<"Aurine_emp">>, <<"Aurine_eg">>, <<"Aurine_emptot">>, <<"KI", "__", "UGE">>}

FecalAmounts == {<<"Afeces_emp">>, <<"Afeces_eg">>, <<"Afeces_emptot">>}

\* C28: in every fit mapping the tissue tag agrees with the observed
\* quantity: venous concentrations are tagged PLASMA, urinary quantities
\* URINE and fecal amounts FECES.
C28_TissueAgrees ==
    \A m \in tag_mappings :
      /\ m.yid \in VenousConcentrations => m.tissue = "PLASMA"
      /\ m.yid \in UrinaryQuantities => m.tissue = "URINE"
      /\ m.yid \in FecalAmounts => m.tissue = "FECES"

(***************************************************************************)
(* Claim about the dose pool over a regimen (DoseSpec).                    *)
(***************************************************************************)
\* the dose of the regimen: PODOSE_emp of its first timecourse
DoseOfRegimen == DoseTimecourses[1].changes.PODOSE_emp

\* C29: at the start of every dosing segment PODOSE_emp is exactly the dose
\* of the segment; within a segment PODOSE_emp is non-negative and never
\* increases; what entered the lumen is the decrease of PODOSE_emp divided
\* by Mr_emp; over n dosing segments at most n * dose / Mr_emp dissolved.
C29_DosePool ==
    dp_seg > 0 =>
      /\ (dp_phase = "start" /\ Dosing_segment(DoseTimecourses[dp_seg])) =>
            dp_PODOSE = DoseTimecourses[dp_seg].changes.PODOSE_emp
      /\ dp_PODOSE >= 0
      /\ dp_last.after <= dp_last.before
      /\ REq(RMul(dp_entered, R(Mr_emp)), R(dp_dissolved))
      /\ RLe(dp_entered, RDiv(R(dp_doses * DoseOfRegimen), R(Mr_emp)))

\* Brand2012, the fifth dose started on a residue of the fourth, and every
\* earlier dose dissolved to the end
C29_Witness ==
    /\ dp_sim = <<"Brand2012", "po_EMP50_D5">>
    /\ dp_seg = 5
    /\ dp_doses = 5
    /\ dp_phase = "start"
    /\ dp_PODOSE = 50
    /\ dp_last.before = 50
    /\ dp_dissolved > 150
    /\ dp_dissolved < 200

(***************************************************************************)
(* Claim about the tasks of an experiment (TaskSpec).                      *)
(***************************************************************************)
\* the simulation keys of the experiment, as a set
SimulationKeysOf(exp) ==
    {TaskExperiments[exp].simulations[i] :
        i \in DOMAIN TaskExperiments[exp].simulations}

\* C30: every experiment has exactly one task per simulation, named
\* task_<simulation key> and bound to the model "model", and every task a
\* fit mapping or a figure refers to is one of these tasks.
C30_TaskIntegrity ==
    tk_pc \in {"fit_mappings", "figures", "done"} =>
      /\ \A key \in SimulationKeysOf(tk_exp) :
            /\ Cardinality({name \in DOMAIN tk_tasks :
                              tk_tasks[name].simulation = key}) = 1
            /\ task_name(key) \in DOMAIN tk_tasks
            /\ tk_tasks[task_name(key)] = Task("model", key)
      /\ Cardinality(DOMAIN tk_tasks) = Cardinality(SimulationKeysOf(tk_exp))
      /\ \A name \in DOMAIN tk_tasks : tk_tasks[name].model \in models
      /\ tk_refs \subseteq DOMAIN tk_tasks

\* Brand2012 is through: its mappings referred to both tasks, its figure to one
C30_Witness ==
    /\ tk_exp = "Brand2012"
    /\ tk_pc = "done"
    /\ Cardinality(tk_refs) = 2
    /\ Cardinality(DOMAIN tk_tasks) = 2

====
